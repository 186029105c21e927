----------------------------- MODULE PagesProofs ----------------------------
(***************************************************************************)
(* Proofs about the pages of the web app that poll, and the API keys page. *)
(*                                                                         *)
(* The market pages (LivePages, a section of Platform): what is on display *)
(* is what was asked for last, for any number of filters, requests under   *)
(* way, changes of a filter and lost answers.  The inductive invariant says*)
(* how each page gets there: by cancelling every request but that of the   *)
(* filter picked last, or because the newest request is always that one    *)
(* and answers keep their order.                                           *)
(*                                                                         *)
(* The page of a paper strategy (PaperPages): its figures agree, although  *)
(* its positions and its equity curve come with different requests.  The   *)
(* inductive invariant is that each of them, on the page and on the wire,  *)
(* is the past of the same ledger: a list whose closed rows closed with the*)
(* rank and net they have in the ledger, and a curve that climbs at each   *)
(* rank by the net of the position that closed then.  Where as many have   *)
(* closed in both, they are the same ones, and every figure follows.       *)
(*                                                                         *)
(* The API keys page (ApiKeys): no key is lost from sight, although the    *)
(* page's calls may be answered in any order, twice served, or not at all. *)
(*                                                                         *)
(* Last, the types of every section of Platform, with those BackendProofs  *)
(* proves of the sections behind the pages.                                *)
(***************************************************************************)
EXTENDS BackendProofs

(* --------------- the inductive invariant of the market pages ----------- *)

Requests == [what : {"edge", "data"}, key : Live!Keys, live : BOOLEAN, done : BOOLEAN, got : Nat]
Answers == [key : Live!Keys, version : Nat, first : BOOLEAN]
Flags == [error : BOOLEAN, loading : BOOLEAN, paused : BOOLEAN, timer : BOOLEAN]
Members(rs) == {rs[i] : i \in DOMAIN rs}

Cancelling == at \in {"audit", "calibration", "markets"}

LiveShape ==
    /\ at \in Live!Pages /\ key \in Live!Keys /\ version \in Nat \ {0} /\ lost \in Nat
    /\ shown \in Answers \cup {Null} /\ ui \in Flags /\ overtook \in BOOLEAN
    /\ reqs \in Seq(Requests)

(* Only the terminal asks for a calibration; an answer is empty only if one*)
(* was lost; a request that was not cancelled is the last filter's, where  *)
(* requests are cancelled.                                                 *)
WireOK(r) ==
    /\ at # "terminal" => r.what = "data"
    /\ r.done /\ r.got = 0 => lost > 0
    /\ (Cancelling \/ r.what = "edge") /\ r.live => r.key = key

(* The newest request is for the filter picked last.                       *)
Coming == reqs # <<>> /\ reqs[Len(reqs)].key = key

AuditOK == ~ui.loading /\ ~ui.error /\ shown # Null => shown.key = key
TableOK ==
    /\ shown # Null /\ shown.first => shown.key = 0
    /\ shown # Null
    /\ ~ui.loading /\ lost = 0 => shown.key = key
ScrubberOK ==
    /\ reqs = <<>> => ~ui.loading
    /\ ~overtook /\ lost = 0 /\ ~ui.timer /\ key # 0 =>
            Coming \/ (reqs = <<>> /\ shown # Null /\ shown.key = key)
ScannerOK == ~overtook => Coming \/ (reqs = <<>> /\ (ui.error \/ shown.key = key))
JudgeOK ==
    edge # Null /\ (\A r \in Members(reqs) : r.what = "edge" => ~r.live) => edge = key

LiveInv ==
    /\ LiveShape
    /\ \A r \in Members(reqs) : WireOK(r)
    /\ at \in {"audit", "calibration"} => AuditOK
    /\ at = "markets" => TableOK
    /\ at = "market" => ScrubberOK
    /\ at = "arb" => ScannerOK
    /\ at = "terminal" => JudgeOK

(* ------------------------------ the requests --------------------------- *)

LEMMA LiveConstants ==
  /\ MaxKey \in Nat /\ MaxOut \in Nat /\ MaxMoves \in Nat /\ MaxLost \in Nat
  /\ Live!Keys = 0 .. MaxKey /\ 0 \in Live!Keys
  /\ Null \notin Answers
  <1>1. /\ MaxKey \in Nat /\ MaxOut \in Nat /\ MaxMoves \in Nat /\ MaxLost \in Nat
        /\ Null \notin [key : Nat, version : Nat, first : BOOLEAN]
    BY PlatformAssumption DEF Live!LivePagesAssumption
  <1>2. Live!Keys = 0 .. MaxKey /\ 0 \in Live!Keys /\ Live!Keys \subseteq Nat
    BY <1>1 DEF Live!Keys
  <1>3. Answers \subseteq [key : Nat, version : Nat, first : BOOLEAN]
    BY <1>2 DEF Answers
  <1>4. QED
    BY <1>1, <1>2, <1>3

LEMMA NewRequest ==
  ASSUME NEW what \in {"edge", "data"}, NEW k \in Live!Keys
  PROVE  /\ Live!Request(what, k) \in Requests
         /\ Live!Request(what, k).what = what /\ Live!Request(what, k).key = k
         /\ Live!Request(what, k).live /\ ~Live!Request(what, k).done
  BY DEF Live!Request, Requests

LEMMA Appended ==
  ASSUME NEW rs \in Seq(Requests), NEW r \in Requests
  PROVE  /\ Append(rs, r) \in Seq(Requests) /\ Append(rs, r) # <<>>
         /\ Members(Append(rs, r)) = Members(rs) \cup {r}
         /\ Append(rs, r)[Len(Append(rs, r))] = r
  <1> DEFINE n == Len(rs)
             a == Append(rs, r)
  <1>1. /\ a \in Seq(Requests) /\ a # <<>> /\ Len(a) = n + 1 /\ a[n + 1] = r
        /\ \A i \in 1 .. n : a[i] = rs[i]
    BY AppendProperties
  <1>2. n \in Nat /\ DOMAIN rs = 1 .. n /\ DOMAIN a = 1 .. (n + 1)
    BY <1>1, LenProperties
  <1>3. DOMAIN a = (DOMAIN rs) \cup {n + 1}
    BY <1>2
  <1> HIDE DEF n, a
  <1>4. Members(a) = Members(rs) \cup {r}
    BY <1>1, <1>2, <1>3 DEF Members
  <1>5. QED
    BY <1>1, <1>4 DEF a

(* A cancelled request differs in its being live only.                     *)
Cancels(r, what) == IF r.what = what THEN [r EXCEPT !.live = FALSE] ELSE r

LEMMA CancelsOne ==
  ASSUME NEW r \in Requests, NEW what
  PROVE  /\ Cancels(r, what) \in Requests
         /\ Cancels(r, what).what = r.what /\ Cancels(r, what).key = r.key
         /\ Cancels(r, what).done = r.done /\ Cancels(r, what).got = r.got
         /\ Cancels(r, what).live = IF r.what = what THEN FALSE ELSE r.live
  BY DEF Cancels, Requests

LEMMA CancelledRequests ==
  ASSUME NEW rs \in Seq(Requests), NEW what
  PROVE  /\ Live!Cancelled(rs, what) \in Seq(Requests)
         /\ \A q \in Members(Live!Cancelled(rs, what)) :
                \E r \in Members(rs) : q = Cancels(r, what)
  <1> DEFINE c == Live!Cancelled(rs, what)
             n == Len(rs)
  <1>1. n \in Nat /\ DOMAIN rs = 1 .. n /\ \A i \in 1 .. n : rs[i] \in Requests
    BY LenProperties, ElementOfSeq
  <1>2. c = [i \in 1 .. n |-> Cancels(rs[i], what)]
    BY <1>1 DEF Live!Cancelled, Cancels
  <1>3. c \in [1 .. n -> Requests]
    <2>1. \A i \in 1 .. n : Cancels(rs[i], what) \in Requests
      BY <1>1, CancelsOne
    <2>2. QED
      BY <1>2, <2>1
  <1>4. c \in Seq(Requests)
    <2> HIDE DEF c, n
    <2>1. c \in UNION {[1 .. m -> Requests] : m \in Nat}
      BY <1>1, <1>3
    <2>2. QED
      BY <2>1, SeqDef
  <1>5. ASSUME NEW q \in Members(c)
        PROVE  \E r \in Members(rs) : q = Cancels(r, what)
    BY <1>1, <1>2 DEF Members
  <1>6. QED
    BY <1>4, <1>5

LEMMA RemovedAt ==
  ASSUME NEW S, NEW s \in Seq(S), NEW i \in 1 .. Len(s)
  PROVE  /\ Live!RemoveAt(s, i) \in Seq(S)
         /\ Len(Live!RemoveAt(s, i)) = Len(s) - 1
         /\ \A k \in 1 .. (Len(s) - 1) :
                Live!RemoveAt(s, i)[k] = IF k < i THEN s[k] ELSE s[k + 1]
  <1> DEFINE a == SubSeq(s, 1, i - 1)
             z == SubSeq(s, i + 1, Len(s))
  <1>1. Len(s) \in Nat /\ i \in Int /\ 1 <= i /\ i <= Len(s)
    BY LenProperties
  <1>2. /\ a \in Seq(S) /\ Len(a) = i - 1
        /\ \A k \in 1 .. (i - 1) : a[k] = s[k]
    BY <1>1, SubSeqProperties
  <1>3. /\ z \in Seq(S) /\ Len(z) = Len(s) - i
        /\ \A k \in 1 .. (Len(s) - i) : z[k] = s[i + k]
    BY <1>1, SubSeqProperties
  <1> HIDE DEF a, z
  <1>4. /\ a \o z \in Seq(S) /\ Len(a \o z) = Len(a) + Len(z)
        /\ \A k \in 1 .. Len(a) + Len(z) :
              (a \o z)[k] = IF k <= Len(a) THEN a[k] ELSE z[k - Len(a)]
    BY <1>2, <1>3, ConcatProperties
  <1>5. Live!RemoveAt(s, i) = a \o z
    BY DEF Live!RemoveAt, a, z
  <1>6. Len(a) + Len(z) = Len(s) - 1
    BY <1>1, <1>2, <1>3
  <1>7. ASSUME NEW k \in 1 .. (Len(s) - 1)
        PROVE  (a \o z)[k] = IF k < i THEN s[k] ELSE s[k + 1]
    <2>1. k \in Int /\ 1 <= k /\ k <= Len(s) - 1
      BY <1>1
    <2>2. (a \o z)[k] = IF k <= Len(a) THEN a[k] ELSE z[k - Len(a)]
      BY <1>4, <1>6
    <2>3. CASE k < i
      BY <1>1, <1>2, <2>1, <2>2, <2>3
    <2>4. CASE ~(k < i)
      <3>1. k - Len(a) \in 1 .. (Len(s) - i) /\ ~(k <= Len(a)) /\ i + (k - Len(a)) = k + 1
        BY <1>1, <1>2, <2>1, <2>4
      <3>2. QED
        BY <1>3, <2>2, <2>4, <3>1
    <2>5. QED
      BY <2>3, <2>4
  <1>8. QED
    BY <1>4, <1>5, <1>6, <1>7


(* Taking a request out leaves the others, and - if it was the oldest -    *)
(* either none or the same newest one.                                     *)
LEMMA Removed ==
  ASSUME NEW s \in Seq(Requests), NEW i \in 1 .. Len(s), NEW t, t = Live!RemoveAt(s, i)
  PROVE  /\ t \in Seq(Requests)
         /\ Members(t) \subseteq Members(s)
         /\ \A q \in Members(s) : q \in Members(t) \/ q = s[i]
         /\ i = 1 /\ t # <<>> => t[Len(t)] = s[Len(s)]
         /\ t = <<>> => s[i] = s[Len(s)]
  <1>1. /\ Len(s) \in Nat /\ i \in Int /\ 1 <= i /\ i <= Len(s) /\ DOMAIN s = 1 .. Len(s)
    BY LenProperties
  <1>2. /\ t \in Seq(Requests) /\ Len(t) = Len(s) - 1
        /\ \A k \in 1 .. (Len(s) - 1) : t[k] = IF k < i THEN s[k] ELSE s[k + 1]
    BY RemovedAt
  <1>3. DOMAIN t = 1 .. (Len(s) - 1)
    BY <1>2, LenProperties
  <1>4. Members(t) \subseteq Members(s)
    <2>1. ASSUME NEW k \in 1 .. (Len(s) - 1)
          PROVE  t[k] \in Members(s)
      <3>1. k \in 1 .. Len(s) /\ k + 1 \in 1 .. Len(s)
        BY <1>1
      <3>2. QED
        BY <1>1, <1>2, <3>1 DEF Members
    <2>2. QED
      BY <1>3, <2>1 DEF Members
  <1>5. ASSUME NEW q \in Members(s)
        PROVE  q \in Members(t) \/ q = s[i]
    <2>1. PICK k \in 1 .. Len(s) : q = s[k]
      BY <1>1 DEF Members
    <2>2. CASE k < i
      <3>1. k \in 1 .. (Len(s) - 1) /\ t[k] = s[k]
        BY <1>1, <1>2, <2>2
      <3>2. QED
        BY <1>3, <2>1, <3>1 DEF Members
    <2>3. CASE k > i
      <3>1. k - 1 \in 1 .. (Len(s) - 1) /\ ~(k - 1 < i) /\ (k - 1) + 1 = k
        BY <1>1, <2>3
      <3>2. t[k - 1] = s[k]
        BY <1>2, <3>1
      <3>3. QED
        BY <1>3, <2>1, <3>1, <3>2 DEF Members
    <2>4. QED
      BY <1>1, <2>1, <2>2, <2>3
  <1>6. ASSUME i = 1, t # <<>>
        PROVE  t[Len(t)] = s[Len(s)]
    <2>1. Len(t) \in Nat /\ Len(t) # 0
      BY <1>2, <1>6, EmptySeq, LenProperties
    <2>2. Len(t) \in 1 .. (Len(s) - 1) /\ ~(Len(t) < i) /\ Len(t) + 1 = Len(s)
      BY <1>1, <1>2, <1>6, <2>1
    <2>3. QED
      BY <1>2, <2>2
  <1>7. ASSUME t = <<>>
        PROVE  s[i] = s[Len(s)]
    <2>1. Len(t) = 0 /\ Len(t) = Len(s) - 1
      <3>1. Len(t) = 0
        BY <1>7
      <3>2. QED
        BY <1>2, <3>1
    <2>2. ASSUME NEW l \in Nat, NEW m, m = 0, m = l - 1, NEW j \in Int, 1 <= j, j <= l
          PROVE  j = l
      BY <2>2
    <2>3. i = Len(s)
      BY <1>1, <2>1, <2>2, Zenon
    <2>4. QED
      BY <2>3
  <1>8. QED
    BY <1>2, <1>4, <1>5, <1>6, <1>7

(* Another record in the place of one request.                             *)
LEMMA Replaced ==
  ASSUME NEW s \in Seq(Requests), NEW i \in 1 .. Len(s), NEW q \in Requests,
         q.what = s[i].what, q.key = s[i].key, (q.live <=> s[i].live),
         NEW t \in Seq(Requests), Len(t) = Len(s),
         \A k \in 1 .. Len(s) : t[k] = IF k = i THEN q ELSE s[k]
  PROVE  /\ (t = <<>> <=> s = <<>>)
         /\ s # <<>> => t[Len(t)].key = s[Len(s)].key
         /\ \A m \in Members(t) : m = q \/ m \in Members(s)
         /\ \A m \in Members(s) : \E o \in Members(t) : o.what = m.what /\ (o.live <=> m.live)
  <1>1. /\ Len(s) \in Nat /\ DOMAIN s = 1 .. Len(s) /\ s \in [1 .. Len(s) -> Requests]
    BY LenProperties
  <1>2. t \in Seq(Requests) /\ Len(t) = Len(s) /\ \A k \in 1 .. Len(s) : t[k] = IF k = i THEN q ELSE s[k]
    OBVIOUS
  <1>3. DOMAIN t = 1 .. Len(s)
    BY <1>2, LenProperties
  <1>4. (t = <<>> <=> s = <<>>)
    BY <1>2, EmptySeq
  <1>5. ASSUME s # <<>>
        PROVE  t[Len(t)].key = s[Len(s)].key
    <2>1. Len(s) \in 1 .. Len(s)
      BY <1>1, <1>5, EmptySeq
    <2>2. QED
      BY <1>2, <2>1
  <1>6. ASSUME NEW m \in Members(t)
        PROVE  m = q \/ m \in Members(s)
    <2>1. PICK k \in 1 .. Len(s) : m = t[k]
      BY <1>3 DEF Members
    <2>2. s[k] \in Members(s)
      BY <1>1 DEF Members
    <2>3. QED
      BY <1>2, <2>1, <2>2
  <1>7. ASSUME NEW m \in Members(s)
        PROVE  \E o \in Members(t) : o.what = m.what /\ (o.live <=> m.live)
    <2>1. PICK k \in 1 .. Len(s) : m = s[k]
      BY <1>1 DEF Members
    <2>2. t[k] \in Members(t)
      BY <1>3 DEF Members
    <2>3. t[k].what = m.what /\ (t[k].live <=> m.live)
      BY <1>2, <2>1
    <2>4. QED
      BY <2>2, <2>3
  <1>8. QED
    BY <1>2, <1>4, <1>5, <1>6, <1>7

(* ------------------------------- the steps ----------------------------- *)

LEMMA OneOfMany ==
  ASSUME LiveInv, NEW i \in DOMAIN reqs
  PROVE  /\ i \in 1 .. Len(reqs) /\ reqs[i] \in Requests /\ reqs[i] \in Members(reqs)
         /\ WireOK(reqs[i]) /\ reqs # <<>>
  <1>1. reqs \in Seq(Requests) /\ \A r \in Members(reqs) : WireOK(r)
    BY DEF LiveInv, LiveShape
  <1>2. DOMAIN reqs = 1 .. Len(reqs) /\ Len(reqs) \in Nat
    BY <1>1, LenProperties
  <1>3. reqs[i] \in Requests
    BY <1>1, <1>2, ElementOfSeq
  <1>4. reqs[i] \in Members(reqs)
    BY DEF Members
  <1>5. reqs # <<>>
    <2>1. Len(reqs) # 0
      BY <1>2
    <2>2. QED
      BY <2>1
  <1>6. QED
    BY <1>1, <1>2, <1>3, <1>4, <1>5

(* An answer that reaches its page is gone from the wire; where it overtook*)
(* none it was the oldest, so that the newest request is still the newest. *)
LEMMA ReceivedOne ==
  ASSUME LiveInv, NEW page, NEW what, NEW i, Live!Received(page, what, i)
  PROVE  /\ at = page /\ at' = at /\ key' = key /\ version' = version /\ lost' = lost
         /\ overtook' \in BOOLEAN /\ reqs' \in Seq(Requests)
         /\ reqs[i] \in Requests /\ WireOK(reqs[i]) /\ reqs # <<>>
         /\ reqs[i].what = what /\ reqs[i].done
         /\ \A r \in Members(reqs') : r \in Members(reqs)
         /\ \A r \in Members(reqs) : r \in Members(reqs') \/ r = reqs[i]
         /\ (\A r \in Members(reqs) : WireOK(r))'
         /\ reqs' = <<>> => reqs[i] = reqs[Len(reqs)]
         /\ at # "terminal" /\ ~overtook' /\ reqs' # <<>> =>
                ~overtook /\ reqs'[Len(reqs')] = reqs[Len(reqs)]
         /\ ~overtook' => ~overtook
  <1>1. /\ at = page /\ i \in DOMAIN reqs /\ reqs[i].what = what /\ reqs[i].done
        /\ reqs' = Live!RemoveAt(reqs, i)
        /\ overtook' = (overtook \/ \E j \in Live!Out(what) : j < i)
        /\ at' = at /\ key' = key /\ version' = version /\ lost' = lost
    BY DEF Live!Received, Live!Out
  <1>2. /\ i \in 1 .. Len(reqs) /\ reqs[i] \in Requests /\ reqs[i] \in Members(reqs)
        /\ WireOK(reqs[i]) /\ reqs # <<>>
    BY <1>1, OneOfMany
  <1>3. reqs \in Seq(Requests) /\ overtook \in BOOLEAN /\ \A r \in Members(reqs) : WireOK(r)
    BY DEF LiveInv, LiveShape
  <1>4. /\ reqs' \in Seq(Requests)
        /\ Members(reqs') \subseteq Members(reqs)
        /\ \A r \in Members(reqs) : r \in Members(reqs') \/ r = reqs[i]
        /\ i = 1 /\ reqs' # <<>> => reqs'[Len(reqs')] = reqs[Len(reqs)]
        /\ reqs' = <<>> => reqs[i] = reqs[Len(reqs)]
    BY <1>1, <1>2, <1>3, Removed
  <1>5. ASSUME NEW r \in Members(reqs')
        PROVE  WireOK(r)'
    BY <1>1, <1>3, <1>4 DEF WireOK, Cancelling
  <1>6. overtook' \in BOOLEAN /\ (~overtook' => ~overtook)
    BY <1>1, <1>3
  <1>7. ASSUME at # "terminal", ~overtook'
        PROVE  i = 1
    <2>1. SUFFICES ASSUME i # 1
                   PROVE  FALSE
      OBVIOUS
    <2>2. 1 \in DOMAIN reqs /\ 1 < i
      <3>1. DOMAIN reqs = 1 .. Len(reqs) /\ Len(reqs) \in Nat
        BY <1>3, LenProperties
      <3>2. QED
        BY <1>2, <2>1, <3>1
    <2>3. WireOK(reqs[1])
      BY <2>2, OneOfMany
    <2>4. reqs[1].what = "data" /\ what = "data"
      BY <1>1, <1>2, <1>7, <2>3 DEF WireOK
    <2>5. 1 \in Live!Out(what)
      BY <2>2, <2>4 DEF Live!Out
    <2>6. QED
      BY <1>1, <1>7, <2>2, <2>5
  <1>8. QED
    BY <1>1, <1>2, <1>4, <1>5, <1>6, <1>7

(* A request that is sent becomes the newest.                              *)
LEMMA SentOne ==
  ASSUME NEW rs \in Seq(Requests), NEW what \in {"edge", "data"}, NEW k \in Live!Keys,
         reqs' = Append(rs, Live!Request(what, k))
  PROVE  /\ reqs' \in Seq(Requests) /\ reqs' # <<>> /\ reqs'[Len(reqs')].key = k
         /\ \E q \in Requests : /\ Members(reqs') = Members(rs) \cup {q}
                                /\ q.what = what /\ q.key = k /\ q.live /\ ~q.done
  <1>0. PICK q : q = Live!Request(what, k)
    OBVIOUS
  <1>1. /\ q \in Requests /\ q.what = what /\ q.key = k /\ q.live /\ ~q.done
    BY <1>0, NewRequest
  <1>2. /\ Append(rs, q) \in Seq(Requests) /\ Append(rs, q) # <<>>
        /\ Members(Append(rs, q)) = Members(rs) \cup {q}
        /\ Append(rs, q)[Len(Append(rs, q))] = q
    BY <1>1, Appended
  <1>3. reqs' = Append(rs, q)
    BY <1>0
  <1>4. QED
    BY <1>1, <1>2, <1>3

(* The requests of a filter that is left are cancelled: what is left of    *)
(* them does not count as live.                                            *)
LEMMA WireAfterCancel ==
  ASSUME LiveInv, NEW what \in {"edge", "data"}, at' = at, lost' = lost,
         at # "terminal" => what = "data",
         at = "terminal" => what = "edge",
         NEW q \in Members(Live!Cancelled(reqs, what))
  PROVE  WireOK(q)' /\ (q.what = what => ~q.live)
  <1>1. reqs \in Seq(Requests) /\ \A r \in Members(reqs) : WireOK(r) /\ r \in Requests
    <2>1. reqs \in Seq(Requests) /\ \A r \in Members(reqs) : WireOK(r)
      BY DEF LiveInv, LiveShape
    <2>2. \A r \in Members(reqs) : r \in Requests
      BY <2>1, ElementOfSeq, LenProperties DEF Members
    <2>3. QED
      BY <2>1, <2>2
  <1>2. PICK r \in Members(reqs) : q = Cancels(r, what)
    BY <1>1, CancelledRequests
  <1>3. /\ q.what = r.what /\ q.done = r.done /\ q.got = r.got
        /\ q.live = IF r.what = what THEN FALSE ELSE r.live
    <2>1. r \in Requests
      BY <1>1
    <2>2. QED
      BY <1>2, <2>1, CancelsOne, ZenonT(40)
  <1>4. WireOK(r)
    BY <1>1
  <1>5. q.what = what => ~q.live
    BY <1>3
  <1>6. WireOK(q)'
    BY <1>3, <1>4 DEF WireOK, Cancelling
  <1>7. QED
    BY <1>5, <1>6

LEMMA ChangeKeeps ==
  ASSUME LiveInv, Live!Change
  PROVE  LiveInv'
  <1>1. /\ version' = version + 1 /\ UNCHANGED <<at, key, shown, edge, ui, reqs, overtook, lost>>
    BY DEF Live!Change
  <1>2. LiveShape'
    BY <1>1 DEF LiveInv, LiveShape
  <1>3. (\A r \in Members(reqs) : WireOK(r))'
    BY <1>1 DEF LiveInv, WireOK, Cancelling
  <1>4. QED
    BY <1>1, <1>2, <1>3 DEF LiveInv, AuditOK, TableOK, ScrubberOK, ScannerOK, JudgeOK, Coming

(* A proxy's answer, or its failure, changes nothing a page has seen.      *)
LEMMA AnswerKeeps ==
  ASSUME LiveInv, NEW i, Live!Answer(i)
  PROVE  LiveInv'
  <1>1. /\ i \in DOMAIN reqs /\ UNCHANGED <<at, key, shown, edge, ui, version, overtook>>
        /\ \/ reqs' = [reqs EXCEPT ![i].done = TRUE, ![i].got = version] /\ lost' = lost
           \/ reqs' = [reqs EXCEPT ![i].done = TRUE] /\ lost' = lost + 1
    BY DEF Live!Answer
  <1>2. /\ i \in 1 .. Len(reqs) /\ reqs[i] \in Requests /\ WireOK(reqs[i]) /\ reqs # <<>>
        /\ reqs \in Seq(Requests) /\ version \in Nat \ {0} /\ lost \in Nat
        /\ \A r \in Members(reqs) : WireOK(r)
    BY <1>1, OneOfMany DEF LiveInv, LiveShape
  <1>3. DOMAIN reqs = 1 .. Len(reqs)
    BY <1>2, LenProperties
  <1>4. PICK q \in Requests :
            /\ reqs' = [reqs EXCEPT ![i] = q]
            /\ q.what = reqs[i].what /\ q.key = reqs[i].key /\ (q.live <=> reqs[i].live)
            /\ q.got = 0 => lost' > 0
            /\ lost' = lost \/ lost' = lost + 1
    <2>1. CASE reqs' = [reqs EXCEPT ![i].done = TRUE, ![i].got = version] /\ lost' = lost
      <3> DEFINE q == [reqs[i] EXCEPT !.done = TRUE, !.got = version]
      <3>1. /\ q \in Requests /\ q.what = reqs[i].what /\ q.key = reqs[i].key
            /\ (q.live <=> reqs[i].live) /\ q.got = version
        BY <1>2 DEF Requests
      <3>2. reqs' = [reqs EXCEPT ![i] = q]
        BY <1>2, <1>3, <2>1 DEF Requests
      <3> HIDE DEF q
      <3>3. QED
        BY <1>2, <2>1, <3>1, <3>2
    <2>2. CASE reqs' = [reqs EXCEPT ![i].done = TRUE] /\ lost' = lost + 1
      <3> DEFINE q == [reqs[i] EXCEPT !.done = TRUE]
      <3>1. /\ q \in Requests /\ q.what = reqs[i].what /\ q.key = reqs[i].key
            /\ (q.live <=> reqs[i].live)
        BY <1>2 DEF Requests
      <3>2. reqs' = [reqs EXCEPT ![i] = q]
        BY <2>2
      <3>3. lost' > 0
        BY <1>2, <2>2
      <3> HIDE DEF q
      <3>4. QED
        BY <2>2, <3>1, <3>2, <3>3
    <2>3. QED
      BY <1>1, <2>1, <2>2
  <1>5. /\ reqs' \in Seq(Requests) /\ reqs' # <<>>
        /\ reqs'[Len(reqs')].key = reqs[Len(reqs)].key
        /\ \A m \in Members(reqs') : m = q \/ m \in Members(reqs)
        /\ \A m \in Members(reqs) : \E o \in Members(reqs') : o.what = m.what /\ (o.live <=> m.live)
    <2>1. PICK t : t = reqs'
      OBVIOUS
    <2>2. /\ t \in Seq(Requests) /\ Len(t) = Len(reqs)
          /\ \A k \in 1 .. Len(reqs) : t[k] = IF k = i THEN q ELSE reqs[k]
      BY <1>2, <1>4, <2>1, ExceptSeq
    <2>3. /\ (t = <<>> <=> reqs = <<>>)
          /\ reqs # <<>> => t[Len(t)].key = reqs[Len(reqs)].key
          /\ \A m \in Members(t) : m = q \/ m \in Members(reqs)
          /\ \A m \in Members(reqs) : \E o \in Members(t) : o.what = m.what /\ (o.live <=> m.live)
      <3>1. i \in 1 .. Len(reqs) /\ reqs \in Seq(Requests)
        BY <1>2
      <3>2. q.what = reqs[i].what /\ q.key = reqs[i].key /\ (q.live <=> reqs[i].live)
        BY <1>4
      <3>3. QED
        BY <2>2, <3>1, <3>2, Replaced, SMTT(60)
    <2>4. QED
      BY <1>2, <2>1, <2>2, <2>3
  <1>6. lost' \in Nat /\ (lost' = 0 => lost = 0) /\ (lost > 0 => lost' > 0)
    BY <1>2, <1>4
  <1>7. LiveShape'
    BY <1>1, <1>5, <1>6 DEF LiveInv, LiveShape
  <1>8. ASSUME NEW r \in Members(reqs')
        PROVE  WireOK(r)'
    <2>1. CASE r \in Members(reqs)
      BY <1>1, <1>2, <1>6, <2>1 DEF WireOK, Cancelling
    <2>2. CASE r = q
      BY <1>1, <1>2, <1>4, <2>2 DEF WireOK, Cancelling
    <2>3. QED
      BY <1>5, <2>1, <2>2
  <1>9. at \in {"audit", "calibration"} => AuditOK'
    BY <1>1 DEF LiveInv, AuditOK
  <1>10. at = "markets" => TableOK'
    BY <1>1, <1>6 DEF LiveInv, TableOK
  <1>11. at = "market" => ScrubberOK'
    BY <1>1, <1>2, <1>5, <1>6 DEF LiveInv, ScrubberOK, Coming
  <1>12. at = "arb" => ScannerOK'
    BY <1>1, <1>2, <1>5 DEF LiveInv, ScannerOK, Coming
  <1>13. at = "terminal" => JudgeOK'
    BY <1>1, <1>5 DEF LiveInv, JudgeOK
  <1>14. QED
    BY <1>1, <1>7, <1>8, <1>9, <1>10, <1>11, <1>12, <1>13 DEF LiveInv

(* The answer of a request, as a page shows it.                            *)
LEMMA ReplyShape ==
  ASSUME NEW i, reqs[i] \in Requests
  PROVE  /\ Live!Reply(i) \in Answers /\ Live!Reply(i).key = reqs[i].key
         /\ ~Live!Reply(i).first /\ Live!Reply(i) # Null
  <1>1. /\ Live!Reply(i) \in Answers /\ Live!Reply(i).key = reqs[i].key /\ ~Live!Reply(i).first
    BY DEF Live!Reply, Answers, Requests
  <1>2. QED
    BY <1>1, LiveConstants

(* ------------------------------ the terminal --------------------------- *)

LEMMA PickTickerKeeps ==
  ASSUME LiveInv, NEW k \in Live!Keys, Live!PickTicker(k)
  PROVE  LiveInv'
  <1> DEFINE c == Live!Cancelled(reqs, "edge")
             asked == Append(c, Live!Request("edge", k))
  <1>1. /\ at = "terminal" /\ at' = at /\ key' = k
        /\ UNCHANGED <<version, lost, shown, edge, ui, overtook>>
        /\ reqs' = Append(asked, Live!Request("data", k)) \/ reqs' = asked
    BY DEF Live!PickTicker, Live!Picked, Live!Send
  <1>2. c \in Seq(Requests)
    BY CancelledRequests DEF LiveInv, LiveShape
  <1>3. \A q \in Members(c) : WireOK(q)'
    BY <1>1, WireAfterCancel
  <1> HIDE DEF c
  <1>4. /\ Live!Request("edge", k) \in Requests /\ Live!Request("edge", k).what = "edge"
        /\ Live!Request("edge", k).key = k /\ Live!Request("edge", k).live
        /\ ~Live!Request("edge", k).done
    BY NewRequest
  <1>5. /\ Live!Request("data", k) \in Requests /\ Live!Request("data", k).what = "data"
        /\ Live!Request("data", k).key = k /\ ~Live!Request("data", k).done
    BY NewRequest
  <1>6. asked \in Seq(Requests) /\ Members(asked) = Members(c) \cup {Live!Request("edge", k)}
    BY <1>2, <1>4, Appended
  <1> HIDE DEF asked
  <1>7. /\ reqs' \in Seq(Requests)
        /\ Members(asked) \subseteq Members(reqs')
        /\ Members(reqs') \subseteq Members(asked) \cup {Live!Request("data", k)}
    <2>1. CASE reqs' = asked
      BY <1>6, <2>1
    <2>2. CASE reqs' = Append(asked, Live!Request("data", k))
      BY <1>5, <1>6, <2>2, Appended
    <2>3. QED
      BY <1>1, <2>1, <2>2
  <1>8. WireOK(Live!Request("edge", k))'
    BY <1>1, <1>4 DEF WireOK, Cancelling
  <1>9. WireOK(Live!Request("data", k))'
    BY <1>1, <1>5 DEF WireOK, Cancelling
  <1>10. (\A r \in Members(reqs) : WireOK(r))'
    BY <1>3, <1>6, <1>7, <1>8, <1>9
  <1>11. LiveShape'
    BY <1>1, <1>7 DEF LiveInv, LiveShape
  <1>12. JudgeOK'
    BY <1>4, <1>6, <1>7 DEF JudgeOK
  <1>13. QED
    BY <1>1, <1>10, <1>11, <1>12 DEF LiveInv

LEMMA PollBoardsKeeps ==
  ASSUME LiveInv, Live!PollBoards
  PROVE  LiveInv'
  <1>1. /\ at = "terminal" /\ UNCHANGED <<at, key, version, lost, shown, edge, ui, overtook>>
        /\ reqs' = Append(reqs, Live!Request("data", key))
    BY DEF Live!PollBoards, Live!Ticked, Live!Send
  <1>2. reqs \in Seq(Requests) /\ key \in Live!Keys
    BY DEF LiveInv, LiveShape
  <1>3. reqs' \in Seq(Requests)
    BY <1>1, <1>2, SentOne
  <1>4. PICK q \in Requests : Members(reqs') = Members(reqs) \cup {q} /\ q.what = "data" /\ ~q.done
    BY <1>1, <1>2, SentOne
  <1>5. LiveShape'
    BY <1>1, <1>3 DEF LiveInv, LiveShape
  <1>6. (\A r \in Members(reqs) : WireOK(r))'
    BY <1>1, <1>4 DEF LiveInv, WireOK, Cancelling
  <1>7. JudgeOK'
    BY <1>1, <1>4 DEF LiveInv, JudgeOK
  <1>8. QED
    BY <1>1, <1>5, <1>6, <1>7 DEF LiveInv

LEMMA ReceiveBoardsKeeps ==
  ASSUME LiveInv, NEW i, Live!ReceiveBoards(i)
  PROVE  LiveInv'
  <1>1. /\ Live!Received("terminal", "data", i) /\ edge' = edge
        /\ shown' = Live!Reply(i) \/ shown' = shown
        /\ ui' = [ui EXCEPT !.error = ~Live!Ok(i)]
    BY DEF Live!ReceiveBoards
  <1>2. /\ at = "terminal" /\ at' = at /\ key' = key /\ version' = version /\ lost' = lost
        /\ overtook' \in BOOLEAN /\ reqs' \in Seq(Requests)
        /\ reqs[i] \in Requests /\ reqs[i].what = "data"
        /\ \A r \in Members(reqs) : r \in Members(reqs') \/ r = reqs[i]
        /\ (\A r \in Members(reqs) : WireOK(r))'
    BY <1>1, ReceivedOne
  <1>3. shown' \in Answers \cup {Null}
    BY <1>1, <1>2, ReplyShape DEF LiveInv, LiveShape
  <1>4. ui' \in Flags
    BY <1>1 DEF LiveInv, LiveShape, Flags, Live!Ok
  <1>5. LiveShape'
    BY <1>2, <1>3, <1>4 DEF LiveInv, LiveShape
  <1>6. JudgeOK'
    BY <1>1, <1>2 DEF LiveInv, JudgeOK
  <1>7. QED
    BY <1>2, <1>5, <1>6 DEF LiveInv

LEMMA ReceiveEdgeKeeps ==
  ASSUME LiveInv, NEW i, Live!ReceiveEdge(i)
  PROVE  LiveInv'
  <1>1. /\ Live!Received("terminal", "edge", i) /\ shown' = shown /\ ui' = ui
        /\ edge' = IF ~reqs[i].live THEN edge ELSE IF Live!Ok(i) THEN reqs[i].key ELSE Null
    BY DEF Live!ReceiveEdge
  <1>2. /\ at = "terminal" /\ at' = at /\ key' = key /\ version' = version /\ lost' = lost
        /\ overtook' \in BOOLEAN /\ reqs' \in Seq(Requests)
        /\ reqs[i] \in Requests /\ reqs[i].what = "edge" /\ WireOK(reqs[i])
        /\ \A r \in Members(reqs) : r \in Members(reqs') \/ r = reqs[i]
        /\ (\A r \in Members(reqs) : WireOK(r))'
    BY <1>1, ReceivedOne
  <1>3. LiveShape'
    BY <1>1, <1>2 DEF LiveInv, LiveShape
  <1>4. JudgeOK'
    <2>1. CASE ~reqs[i].live
      BY <1>1, <1>2, <2>1 DEF LiveInv, JudgeOK
    <2>2. CASE reqs[i].live
      <3>1. reqs[i].key = key
        BY <1>2, <2>2 DEF WireOK
      <3>2. edge' = key \/ edge' = Null
        BY <1>1, <2>2, <3>1
      <3>3. QED
        BY <1>2, <3>2 DEF JudgeOK
    <2>3. QED
      BY <2>1, <2>2
  <1>5. QED
    BY <1>2, <1>3, <1>4 DEF LiveInv

(* ------------------------------ one market ----------------------------- *)

LEMMA ScrubToKeeps ==
  ASSUME LiveInv, NEW k \in Live!Keys, Live!ScrubTo(k)
  PROVE  LiveInv'
  <1>1. /\ at = "market" /\ at' = at /\ key' = k
        /\ shown' = (IF k = 0 THEN Null ELSE shown)
        /\ ui' = [ui EXCEPT !.timer = (k # 0)]
        /\ UNCHANGED <<version, lost, edge, reqs, overtook>>
    BY DEF Live!ScrubTo, Live!Picked
  <1>2. ui \in Flags /\ reqs \in Seq(Requests)
    BY DEF LiveInv, LiveShape
  <1>3. ui' \in Flags /\ (ui'.loading <=> ui.loading) /\ (ui'.timer <=> k # 0)
    BY <1>1, <1>2 DEF Flags
  <1>4. LiveShape'
    BY <1>1, <1>3 DEF LiveInv, LiveShape
  <1>5. (\A r \in Members(reqs) : WireOK(r))'
    BY <1>1 DEF LiveInv, WireOK, Cancelling
  <1>6. ScrubberOK'
    BY <1>1, <1>3 DEF LiveInv, ScrubberOK
  <1>7. QED
    BY <1>1, <1>4, <1>5, <1>6 DEF LiveInv

LEMMA FetchBookKeeps ==
  ASSUME LiveInv, Live!FetchBook
  PROVE  LiveInv'
  <1>1. /\ at = "market" /\ UNCHANGED <<at, key, shown, edge, version, lost>>
        /\ ui' = [ui EXCEPT !.timer = FALSE, !.loading = TRUE]
        /\ reqs' = Append(reqs, Live!Request("data", key))
        /\ overtook' = (overtook /\ reqs # <<>>)
    BY DEF Live!FetchBook, Live!Ticked, Live!Send
  <1>2. reqs \in Seq(Requests) /\ key \in Live!Keys /\ ui \in Flags
    BY DEF LiveInv, LiveShape
  <1>3. reqs' \in Seq(Requests) /\ reqs' # <<>> /\ reqs'[Len(reqs')].key = key
    BY <1>1, <1>2, SentOne
  <1>4. PICK q \in Requests : Members(reqs') = Members(reqs) \cup {q} /\ q.what = "data" /\ ~q.done
    BY <1>1, <1>2, SentOne
  <1>5. ui' \in Flags /\ overtook' \in BOOLEAN
    BY <1>1, <1>2 DEF Flags
  <1>6. LiveShape'
    BY <1>1, <1>3, <1>5 DEF LiveInv, LiveShape
  <1>7. (\A r \in Members(reqs) : WireOK(r))'
    BY <1>1, <1>4 DEF LiveInv, WireOK, Cancelling
  <1>8. ScrubberOK'
    BY <1>1, <1>3 DEF ScrubberOK, Coming
  <1>9. QED
    BY <1>1, <1>6, <1>7, <1>8 DEF LiveInv

LEMMA ReceiveBookKeeps ==
  ASSUME LiveInv, NEW i, Live!ReceiveBook(i)
  PROVE  LiveInv'
  <1>1. /\ Live!Received("market", "data", i) /\ edge' = edge
        /\ shown' = IF Live!Ok(i) THEN Live!Reply(i) ELSE shown
        /\ ui' = [ui EXCEPT !.loading = FALSE]
    BY DEF Live!ReceiveBook
  <1>2. /\ at = "market" /\ at' = at /\ key' = key /\ version' = version /\ lost' = lost
        /\ overtook' \in BOOLEAN /\ reqs' \in Seq(Requests)
        /\ reqs[i] \in Requests /\ reqs[i].done /\ WireOK(reqs[i]) /\ reqs # <<>>
        /\ (\A r \in Members(reqs) : WireOK(r))'
        /\ reqs' = <<>> => reqs[i] = reqs[Len(reqs)]
        /\ ~overtook' /\ reqs' # <<>> => reqs'[Len(reqs')] = reqs[Len(reqs)]
        /\ ~overtook' => ~overtook
    BY <1>1, ReceivedOne
  <1>3. ui \in Flags /\ shown \in Answers \cup {Null} /\ lost \in Nat /\ ScrubberOK
    BY <1>2 DEF LiveInv, LiveShape
  <1>4. ui' \in Flags /\ ~ui'.loading /\ (ui'.timer <=> ui.timer)
    BY <1>1, <1>3 DEF Flags
  <1>5. shown' \in Answers \cup {Null} /\ (Live!Ok(i) => shown' # Null /\ shown'.key = reqs[i].key)
    BY <1>1, <1>2, <1>3, ReplyShape
  <1>6. LiveShape'
    BY <1>2, <1>4, <1>5 DEF LiveInv, LiveShape
  <1>7. ASSUME ~overtook', lost' = 0, ~ui'.timer, key' # 0
        PROVE  (Coming \/ (reqs = <<>> /\ shown # Null /\ shown.key = key))'
    <2>1. reqs[Len(reqs)].key = key
      BY <1>2, <1>3, <1>4, <1>7 DEF ScrubberOK, Coming
    <2>2. CASE reqs' = <<>>
      <3>1. reqs[i].key = key
        BY <1>2, <2>1, <2>2
      <3>2. Live!Ok(i)
        BY <1>2, <1>3, <1>7 DEF WireOK, Live!Ok
      <3>3. QED
        BY <1>2, <1>5, <2>2, <3>1, <3>2
    <2>3. CASE reqs' # <<>>
      BY <1>2, <1>7, <2>1, <2>3 DEF Coming
    <2>4. QED
      BY <2>2, <2>3
  <1>8. ScrubberOK'
    BY <1>4, <1>7 DEF ScrubberOK
  <1>9. QED
    BY <1>2, <1>6, <1>8 DEF LiveInv

(* ------------------------------ the scanner ---------------------------- *)

(* Every scan asked for is for the threshold picked last.                  *)
LEMMA ScanSent ==
  ASSUME LiveInv, at = "arb", at' = at, version' = version, lost' = lost, shown' = shown,
         edge' = edge, ui' \in Flags, overtook' = (overtook /\ reqs # <<>>),
         NEW k \in Live!Keys, key' = k, reqs' = Append(reqs, Live!Request("data", k))
  PROVE  LiveInv'
  <1>1. reqs \in Seq(Requests) /\ overtook \in BOOLEAN
    BY DEF LiveInv, LiveShape
  <1>2. reqs' \in Seq(Requests) /\ reqs' # <<>> /\ reqs'[Len(reqs')].key = k
    BY <1>1, SentOne
  <1>3. PICK q \in Requests : Members(reqs') = Members(reqs) \cup {q} /\ q.what = "data" /\ ~q.done
    BY <1>1, SentOne
  <1>4. overtook' \in BOOLEAN
    BY <1>1
  <1>5. LiveShape'
    BY <1>2, <1>4 DEF LiveInv, LiveShape
  <1>6. (\A r \in Members(reqs) : WireOK(r))'
    BY <1>3 DEF LiveInv, WireOK, Cancelling
  <1>7. ScannerOK'
    BY <1>2 DEF ScannerOK, Coming
  <1>8. QED
    BY <1>5, <1>6, <1>7 DEF LiveInv

LEMMA ScannerSendsKeep ==
  ASSUME LiveInv, Live!TogglePause \/ Live!PollArb \/ \E k \in Live!Keys : Live!SetMinEdge(k)
  PROVE  LiveInv'
  <1>1. ui \in Flags /\ key \in Live!Keys
    BY DEF LiveInv, LiveShape
  <1>2. CASE Live!TogglePause
    <2>1. /\ at = "arb" /\ UNCHANGED <<at, key, shown, edge, version, lost>>
          /\ ui' = [ui EXCEPT !.paused = ~@]
          /\ reqs' = Append(reqs, Live!Request("data", key))
          /\ overtook' = (overtook /\ reqs # <<>>)
      BY <1>2 DEF Live!TogglePause, Live!Send
    <2>2. ui' \in Flags
      BY <1>1, <2>1 DEF Flags
    <2>3. QED
      BY <1>1, <2>1, <2>2, ScanSent
  <1>3. CASE Live!PollArb
    <2>1. /\ at = "arb" /\ UNCHANGED <<at, key, shown, edge, version, lost, ui>>
          /\ reqs' = Append(reqs, Live!Request("data", key))
          /\ overtook' = (overtook /\ reqs # <<>>)
      BY <1>3 DEF Live!PollArb, Live!Ticked, Live!Send
    <2>2. QED
      BY <1>1, <2>1, ScanSent
  <1>4. ASSUME NEW k \in Live!Keys, Live!SetMinEdge(k)
        PROVE  LiveInv'
    <2>1. /\ at = "arb" /\ key' = k /\ UNCHANGED <<at, shown, edge, version, lost, ui>>
          /\ reqs' = Append(reqs, Live!Request("data", k))
          /\ overtook' = (overtook /\ reqs # <<>>)
      BY <1>4 DEF Live!SetMinEdge, Live!Picked, Live!Send
    <2>2. QED
      BY <1>1, <2>1, ScanSent
  <1>5. QED
    BY <1>2, <1>3, <1>4

LEMMA ReceiveArbKeeps ==
  ASSUME LiveInv, NEW i, Live!ReceiveArb(i)
  PROVE  LiveInv'
  <1>1. /\ Live!Received("arb", "data", i) /\ edge' = edge
        /\ shown' = IF Live!Ok(i) THEN Live!Reply(i) ELSE shown
        /\ ui' = [ui EXCEPT !.error = ~Live!Ok(i), !.loading = FALSE]
    BY DEF Live!ReceiveArb
  <1>2. /\ at = "arb" /\ at' = at /\ key' = key /\ version' = version /\ lost' = lost
        /\ overtook' \in BOOLEAN /\ reqs' \in Seq(Requests)
        /\ reqs[i] \in Requests /\ reqs # <<>>
        /\ (\A r \in Members(reqs) : WireOK(r))'
        /\ reqs' = <<>> => reqs[i] = reqs[Len(reqs)]
        /\ ~overtook' /\ reqs' # <<>> => reqs'[Len(reqs')] = reqs[Len(reqs)]
        /\ ~overtook' => ~overtook
    BY <1>1, ReceivedOne
  <1>3. ui \in Flags /\ shown \in Answers \cup {Null} /\ ScannerOK
    BY <1>2 DEF LiveInv, LiveShape
  <1>4. ui' \in Flags /\ (ui'.error <=> ~Live!Ok(i))
    BY <1>1, <1>3 DEF Flags, Live!Ok
  <1>5. shown' \in Answers \cup {Null} /\ (Live!Ok(i) => shown'.key = reqs[i].key)
    BY <1>1, <1>2, <1>3, ReplyShape
  <1>6. LiveShape'
    BY <1>2, <1>4, <1>5 DEF LiveInv, LiveShape
  <1>7. ASSUME ~overtook'
        PROVE  (Coming \/ (reqs = <<>> /\ (ui.error \/ shown.key = key)))'
    <2>1. reqs[Len(reqs)].key = key
      BY <1>2, <1>3, <1>7 DEF ScannerOK, Coming
    <2>2. CASE reqs' = <<>>
      <3>1. reqs[i].key = key
        BY <1>2, <2>1, <2>2
      <3>2. QED
        BY <1>2, <1>4, <1>5, <2>2, <3>1
    <2>3. CASE reqs' # <<>>
      BY <1>2, <1>7, <2>1, <2>3 DEF Coming
    <2>4. QED
      BY <2>2, <2>3
  <1>8. ScannerOK'
    BY <1>7 DEF ScannerOK
  <1>9. QED
    BY <1>2, <1>6, <1>8 DEF LiveInv

(* ------------------------- the pages that cancel ----------------------- *)

(* Another filter leaves one live request at most: the one just sent.      *)
LEMMA CancelAndSend ==
  ASSUME LiveInv, Cancelling, at' = at, lost' = lost,
         NEW k \in Live!Keys, key' = k,
         \/ reqs' = Live!Cancelled(reqs, "data")
         \/ reqs' = Append(Live!Cancelled(reqs, "data"), Live!Request("data", k))
  PROVE  reqs' \in Seq(Requests) /\ (\A r \in Members(reqs) : WireOK(r))'
  <1> DEFINE c == Live!Cancelled(reqs, "data")
  <1>1. at # "terminal"
    BY DEF Cancelling
  <1>2. c \in Seq(Requests)
    BY CancelledRequests DEF LiveInv, LiveShape
  <1>3. \A q \in Members(c) : WireOK(q)'
    BY <1>1, WireAfterCancel
  <1> HIDE DEF c
  <1>4. CASE reqs' = c
    BY <1>2, <1>3, <1>4
  <1>5. CASE reqs' = Append(c, Live!Request("data", k))
    <2>1. reqs' \in Seq(Requests)
      BY <1>2, <1>5, SentOne
    <2>2. PICK q \in Requests : /\ Members(reqs') = Members(c) \cup {q}
                                /\ q.what = "data" /\ q.key = k /\ ~q.done
      BY <1>2, <1>5, SentOne
    <2>3. WireOK(q)'
      BY <2>2 DEF WireOK
    <2>4. QED
      BY <1>3, <2>1, <2>2, <2>3
  <1>6. QED
    BY <1>4, <1>5 DEF c

LEMMA PickWindowKeeps ==
  ASSUME LiveInv, NEW k \in Live!Keys, Live!PickWindow(k) \/ Live!PickFilter(k)
  PROVE  LiveInv'
  <1>1. /\ at \in {"audit", "calibration"} /\ key' = k
        /\ UNCHANGED <<at, version, lost, shown, edge, overtook>>
        /\ reqs' = Append(Live!Cancelled(reqs, "data"), Live!Request("data", k))
        /\ \/ ui' = [ui EXCEPT !.loading = TRUE]
           \/ ui' = [ui EXCEPT !.loading = TRUE, !.error = FALSE]
    BY DEF Live!PickWindow, Live!PickFilter, Live!Picked, Live!Send
  <1>2. ui \in Flags
    BY DEF LiveInv, LiveShape
  <1>3. ui' \in Flags /\ ui'.loading
    BY <1>1, <1>2 DEF Flags
  <1>4. reqs' \in Seq(Requests) /\ (\A r \in Members(reqs) : WireOK(r))'
    BY <1>1, CancelAndSend DEF Cancelling
  <1>5. LiveShape'
    BY <1>1, <1>3, <1>4 DEF LiveInv, LiveShape
  <1>6. AuditOK'
    BY <1>3 DEF AuditOK
  <1>7. QED
    BY <1>1, <1>4, <1>5, <1>6 DEF LiveInv

LEMMA PickTabKeeps ==
  ASSUME LiveInv, NEW k \in Live!Keys, Live!PickTab(k)
  PROVE  LiveInv'
  <1>1. /\ at = "markets" /\ key' = k
        /\ UNCHANGED <<at, version, lost, shown, edge, overtook>>
        /\ \/ k = 0 /\ shown.first /\ reqs' = Live!Cancelled(reqs, "data") /\ ui' = ui
           \/ /\ reqs' = Append(Live!Cancelled(reqs, "data"), Live!Request("data", k))
              /\ ui' = [ui EXCEPT !.loading = TRUE]
    BY DEF Live!PickTab, Live!Picked, Live!Send
  <1>2. ui \in Flags /\ TableOK
    BY <1>1 DEF LiveInv, LiveShape
  <1>3. ui' \in Flags /\ ((k = 0 /\ shown.first) \/ ui'.loading)
    BY <1>1, <1>2 DEF Flags
  <1>4. reqs' \in Seq(Requests) /\ (\A r \in Members(reqs) : WireOK(r))'
    BY <1>1, CancelAndSend DEF Cancelling
  <1>5. LiveShape'
    BY <1>1, <1>3, <1>4 DEF LiveInv, LiveShape
  <1>6. TableOK'
    BY <1>1, <1>2, <1>3 DEF TableOK
  <1>7. QED
    BY <1>1, <1>4, <1>5, <1>6 DEF LiveInv

LEMMA ReceiveAuditKeeps ==
  ASSUME LiveInv, NEW i, Live!ReceiveAudit(i) \/ Live!ReceiveBuckets(i)
  PROVE  LiveInv'
  <1>1. /\ \/ Live!Received("audit", "data", i)
           \/ Live!Received("calibration", "data", i)
        /\ edge' = edge
        /\ \/ ~reqs[i].live /\ UNCHANGED <<shown, ui>>
           \/ /\ reqs[i].live
              /\ shown' = IF Live!Ok(i) THEN Live!Reply(i) ELSE shown
              /\ \/ ui' = [ui EXCEPT !.loading = FALSE, !.error = ~Live!Ok(i)]
                 \/ ui' = [ui EXCEPT !.loading = FALSE, !.error = (@ \/ ~Live!Ok(i))]
    BY DEF Live!ReceiveAudit, Live!ReceiveBuckets
  <1>2. /\ at \in {"audit", "calibration"} /\ at' = at /\ key' = key /\ version' = version
        /\ lost' = lost /\ overtook' \in BOOLEAN /\ reqs' \in Seq(Requests)
        /\ reqs[i] \in Requests /\ WireOK(reqs[i])
        /\ (\A r \in Members(reqs) : WireOK(r))'
    BY <1>1, ReceivedOne
  <1>3. ui \in Flags /\ shown \in Answers \cup {Null} /\ AuditOK
    BY <1>2 DEF LiveInv, LiveShape
  <1>4. ui' \in Flags
    BY <1>1, <1>3 DEF Flags, Live!Ok
  <1>5. shown' \in Answers \cup {Null}
    BY <1>1, <1>2, <1>3, ReplyShape
  <1>6. LiveShape'
    BY <1>1, <1>2, <1>4, <1>5 DEF LiveInv, LiveShape
  <1>7. AuditOK'
    <2>1. CASE ~reqs[i].live
      BY <1>1, <1>2, <1>3, <2>1 DEF AuditOK
    <2>2. CASE reqs[i].live /\ Live!Ok(i)
      <3>1. reqs[i].key = key
        BY <1>2, <2>2 DEF WireOK, Cancelling
      <3>2. shown'.key = key
        BY <1>1, <1>2, <2>2, <3>1, ReplyShape
      <3>3. QED
        BY <1>2, <3>2 DEF AuditOK
    <2>3. CASE reqs[i].live /\ ~Live!Ok(i)
      <3>1. ui'.error
        BY <1>1, <1>3, <2>3 DEF Flags
      <3>2. QED
        BY <3>1 DEF AuditOK
    <2>4. QED
      BY <2>1, <2>2, <2>3
  <1>8. QED
    BY <1>2, <1>6, <1>7 DEF LiveInv

LEMMA ReceiveMarketsKeeps ==
  ASSUME LiveInv, NEW i, Live!ReceiveMarkets(i)
  PROVE  LiveInv'
  <1>1. /\ Live!Received("markets", "data", i) /\ edge' = edge
        /\ \/ ~reqs[i].live /\ UNCHANGED <<shown, ui>>
           \/ /\ reqs[i].live
              /\ shown' = IF Live!Ok(i) THEN Live!Reply(i) ELSE shown
              /\ ui' = [ui EXCEPT !.loading = FALSE]
    BY DEF Live!ReceiveMarkets
  <1>2. /\ at = "markets" /\ at' = at /\ key' = key /\ version' = version
        /\ lost' = lost /\ overtook' \in BOOLEAN /\ reqs' \in Seq(Requests)
        /\ reqs[i] \in Requests /\ reqs[i].done /\ WireOK(reqs[i])
        /\ (\A r \in Members(reqs) : WireOK(r))'
    BY <1>1, ReceivedOne
  <1>3. ui \in Flags /\ shown \in Answers \cup {Null} /\ lost \in Nat /\ TableOK
    BY <1>2 DEF LiveInv, LiveShape
  <1>4. ui' \in Flags
    BY <1>1, <1>3 DEF Flags
  <1>5. shown' \in Answers \cup {Null}
    BY <1>1, <1>2, <1>3, ReplyShape
  <1>6. LiveShape'
    BY <1>1, <1>2, <1>4, <1>5 DEF LiveInv, LiveShape
  <1>7. TableOK'
    <2>1. CASE ~reqs[i].live
      BY <1>1, <1>2, <1>3, <2>1 DEF TableOK
    <2>2. CASE reqs[i].live /\ Live!Ok(i)
      <3>1. reqs[i].key = key
        BY <1>2, <2>2 DEF WireOK, Cancelling
      <3>2. shown' = Live!Reply(i)
        BY <1>1, <2>2
      <3>3. shown' # Null /\ ~shown'.first /\ shown'.key = key
        BY <1>2, <3>1, <3>2, ReplyShape
      <3>4. QED
        BY <1>2, <3>3 DEF TableOK
    <2>3. CASE reqs[i].live /\ ~Live!Ok(i)
      <3>1. lost' # 0
        BY <1>2, <1>3, <2>3 DEF WireOK, Live!Ok
      <3>2. shown' = shown
        BY <1>1, <2>3
      <3>3. QED
        BY <1>2, <1>3, <3>1, <3>2 DEF TableOK
    <2>4. QED
      BY <2>1, <2>2, <2>3
  <1>8. QED
    BY <1>2, <1>6, <1>7 DEF LiveInv

(* ---------------------- the invariant and its theorem ------------------ *)

LEMMA LiveStarts ==
  ASSUME Live!Init
  PROVE  LiveInv
  <1> DEFINE e == Live!Request("edge", 0)
             d == Live!Request("data", 0)
  <1>1. /\ at \in Live!Pages /\ key = 0 /\ edge = Null /\ version = 1 /\ overtook = FALSE
        /\ lost = 0 /\ shown = (IF at = "markets" THEN Live!LatestBook ELSE Null)
        /\ ui = [Live!Quiet EXCEPT !.loading = (at \in {"arb", "audit", "calibration"})]
        /\ reqs = Live!Asked(at)
    BY DEF Live!Init
  <1>2. 0 \in Live!Keys
    BY LiveConstants
  <1>3. /\ e \in Requests /\ e.what = "edge" /\ e.key = 0 /\ e.live /\ ~e.done
        /\ d \in Requests /\ d.what = "data" /\ d.key = 0 /\ ~d.done
    <2>1. /\ e \in Requests /\ e.what = "edge" /\ e.key = 0 /\ e.live /\ ~e.done
      BY <1>2, NewRequest
    <2>2. /\ d \in Requests /\ d.what = "data" /\ d.key = 0 /\ ~d.done
      BY <1>2, NewRequest
    <2>3. QED
      BY <2>1, <2>2
  <1>4. reqs = IF at = "terminal" THEN <<e, d>>
               ELSE IF at \in {"arb", "audit", "calibration"} THEN <<d>> ELSE <<>>
    BY <1>1 DEF Live!Asked
  <1> HIDE DEF e, d
  <1>5. reqs \in Seq(Requests) /\ (at = "terminal" => e \in Members(reqs))
        /\ \A r \in Members(reqs) : r = d \/ (r = e /\ at = "terminal")
    <2>1. CASE at = "terminal"
      <3>1. reqs = <<e, d>>
        BY <1>4, <2>1
      <3>2. reqs \in Seq(Requests) /\ DOMAIN reqs = {1, 2} /\ reqs[1] = e /\ reqs[2] = d
        BY <1>3, <3>1
      <3>3. QED
        BY <2>1, <3>2 DEF Members
    <2>2. CASE at \in {"arb", "audit", "calibration"}
      <3>1. reqs = <<d>>
        BY <1>4, <2>2
      <3>2. reqs \in Seq(Requests) /\ DOMAIN reqs = {1} /\ reqs[1] = d
        BY <1>3, <3>1
      <3>3. QED
        BY <2>2, <3>2 DEF Members
    <2>3. CASE at \notin {"terminal", "arb", "audit", "calibration"}
      <3>1. reqs = <<>>
        BY <1>4, <2>3
      <3>2. reqs \in Seq(Requests) /\ DOMAIN reqs = {}
        BY <3>1
      <3>3. QED
        BY <2>3, <3>2 DEF Members
    <2>4. QED
      BY <2>1, <2>2, <2>3
  <1>6. /\ Live!LatestBook \in Answers /\ Live!LatestBook.key = 0
        /\ Live!LatestBook # Null
    <2>1. Live!LatestBook \in Answers
      BY <1>2 DEF Live!LatestBook, Answers
    <2>2. Live!LatestBook.key = 0
      BY DEF Live!LatestBook
    <2>3. Live!LatestBook # Null
      BY <2>1, LiveConstants
    <2>4. QED
      BY <2>1, <2>2, <2>3
  <1>7. /\ ui \in Flags /\ (ui.loading <=> at \in {"arb", "audit", "calibration"})
    <2>1. PICK b \in BOOLEAN : b = (at \in {"arb", "audit", "calibration"})
      <3>1. CASE at \in {"arb", "audit", "calibration"}
        <4>1. TRUE = (at \in {"arb", "audit", "calibration"})
          BY <3>1
        <4>2. QED
          BY <4>1
      <3>2. CASE at \notin {"arb", "audit", "calibration"}
        <4>1. FALSE = (at \in {"arb", "audit", "calibration"})
          BY <3>2
        <4>2. QED
          BY <4>1
      <3>3. QED
        BY <3>1, <3>2
    <2>2. ui = [Live!Quiet EXCEPT !.loading = b]
      BY <1>1, <2>1
    <2>3. ui = [error |-> FALSE, loading |-> b, paused |-> FALSE, timer |-> FALSE]
      BY <2>2 DEF Live!Quiet
    <2>4. ui \in Flags /\ ui.loading = b
      BY <2>3 DEF Flags
    <2>5. QED
      BY <2>1, <2>4
  <1>8. LiveShape
    <2>1. /\ at \in Live!Pages /\ key \in Live!Keys /\ version \in Nat \ {0} /\ lost \in Nat
          /\ overtook \in BOOLEAN
      <3>1. overtook \in BOOLEAN
        BY <1>1
      <3>2. 1 \in Nat \ {0} /\ 0 \in Nat
        OBVIOUS
      <3>3. QED
        BY <1>1, <1>2, <3>1, <3>2
    <2>2. shown \in Answers \cup {Null}
      BY <1>1, <1>6
    <2>3. QED
      BY <1>5, <1>7, <2>1, <2>2 DEF LiveShape
  <1>9. \A r \in Members(reqs) : WireOK(r)
    BY <1>1, <1>3, <1>5 DEF WireOK, Cancelling
  <1>10. at \in {"audit", "calibration"} => AuditOK
    BY <1>7 DEF AuditOK
  <1>11. at = "markets" => TableOK
    BY <1>1, <1>6 DEF TableOK
  <1>12. at = "market" => ScrubberOK
    BY <1>1, <1>7 DEF ScrubberOK
  <1>13. at = "arb" => ScannerOK
    <2>1. SUFFICES ASSUME at = "arb"
                   PROVE  reqs # <<>> /\ reqs[Len(reqs)].key = key
      BY DEF ScannerOK, Coming
    <2>2. reqs = <<d>> /\ Len(reqs) = 1 /\ reqs[1] = d
      BY <1>4, <2>1
    <2>3. QED
      BY <1>1, <1>3, <2>2
  <1>14. at = "terminal" => JudgeOK
    BY <1>1 DEF JudgeOK
  <1>15. QED
    BY <1>8, <1>9, <1>10, <1>11, <1>12, <1>13, <1>14 DEF LiveInv

LEMMA LiveStutters ==
  ASSUME LiveInv, UNCHANGED liveVars
  PROVE  LiveInv'
  <1>1. UNCHANGED <<at, key, shown, edge, ui, reqs, version, overtook, lost>>
    BY DEF liveVars
  <1>2. LiveShape'
    BY <1>1 DEF LiveInv, LiveShape
  <1>3. (\A r \in Members(reqs) : WireOK(r))'
    BY <1>1 DEF LiveInv, WireOK, Cancelling
  <1>4. QED
    BY <1>1, <1>2, <1>3 DEF LiveInv, AuditOK, TableOK, ScrubberOK, ScannerOK, JudgeOK, Coming

LEMMA LiveAlone ==
  ASSUME [Next]_vars
  PROVE  Live!Next \/ UNCHANGED liveVars
  BY DEF Next, InWeb, InBackend, vars, webVars

LEMMA LiveInvariant == Spec => []LiveInv
  <1>1. Init => LiveInv
    BY LiveStarts DEF Init
  <1>2. LiveInv /\ [Next]_vars => LiveInv'
    <2>1. SUFFICES ASSUME LiveInv, [Next]_vars
                   PROVE  LiveInv'
      OBVIOUS
    <2>2. CASE UNCHANGED liveVars
      BY <2>1, <2>2, LiveStutters
    <2>3. CASE Live!Next
      <3>1. CASE Live!Change
        BY <2>1, <3>1, ChangeKeeps
      <3>2. CASE Live!TogglePause \/ Live!PollArb
        BY <2>1, <3>2, ScannerSendsKeep
      <3>3. CASE Live!PollBoards
        BY <2>1, <3>3, PollBoardsKeeps
      <3>4. CASE Live!FetchBook
        BY <2>1, <3>4, FetchBookKeeps
      <3>5. ASSUME NEW i, Live!Answer(i)
            PROVE  LiveInv'
        BY <2>1, <3>5, AnswerKeeps
      <3>6. ASSUME NEW i, Live!Receive(i)
            PROVE  LiveInv'
        <4>1. CASE Live!ReceiveBoards(i)
          BY <2>1, <4>1, ReceiveBoardsKeeps
        <4>2. CASE Live!ReceiveEdge(i)
          BY <2>1, <4>2, ReceiveEdgeKeeps
        <4>3. CASE Live!ReceiveBook(i)
          BY <2>1, <4>3, ReceiveBookKeeps
        <4>4. CASE Live!ReceiveArb(i)
          BY <2>1, <4>4, ReceiveArbKeeps
        <4>5. CASE Live!ReceiveAudit(i) \/ Live!ReceiveBuckets(i)
          BY <2>1, <4>5, ReceiveAuditKeeps
        <4>6. CASE Live!ReceiveMarkets(i)
          BY <2>1, <4>6, ReceiveMarketsKeeps
        <4>7. QED
          BY <3>6, <4>1, <4>2, <4>3, <4>4, <4>5, <4>6 DEF Live!Receive
      <3>7. ASSUME NEW k \in Live!Keys,
                   \/ Live!PickTicker(k) \/ Live!ScrubTo(k) \/ Live!SetMinEdge(k)
                   \/ Live!PickWindow(k) \/ Live!PickFilter(k) \/ Live!PickTab(k)
            PROVE  LiveInv'
        <4>1. CASE Live!PickTicker(k)
          BY <2>1, <4>1, PickTickerKeeps
        <4>2. CASE Live!ScrubTo(k)
          BY <2>1, <4>2, ScrubToKeeps
        <4>3. CASE Live!SetMinEdge(k)
          BY <2>1, <4>3, ScannerSendsKeep
        <4>4. CASE Live!PickWindow(k) \/ Live!PickFilter(k)
          BY <2>1, <4>4, PickWindowKeeps
        <4>5. CASE Live!PickTab(k)
          BY <2>1, <4>5, PickTabKeeps
        <4>6. QED
          BY <3>7, <4>1, <4>2, <4>3, <4>4, <4>5
      <3>8. QED
        BY <2>3, <3>1, <3>2, <3>3, <3>4, <3>5, <3>6, <3>7 DEF Live!Next
    <2>4. QED
      BY <2>1, <2>2, <2>3, LiveAlone
  <1>3. QED
    BY <1>1, <1>2, PTL DEF Spec

(* --------------------- the table of the scanner ------------------------ *)

LEMMA LiveCardinality ==
  \A S : Live!Cardinality(S) = Cardinality(S)
  BY DEF Live!Cardinality, Cardinality

LEMMA OpportunitiesFinite == IsFiniteSet(Live!Opportunity)
  <1> DEFINE T == {"BTC", "ETH"}
             R == {"stable", "stale", "logical"}
             P == (T \X R) \X Live!Keys
             f == [p \in P |-> [ticker |-> p[1][1], tier |-> p[1][2], clears |-> p[2]]]
  <1>1. IsFiniteSet(T)
    <2>1. IsFiniteSet({} \cup {"BTC"})
      BY FS_EmptySet, FS_AddElement
    <2>2. IsFiniteSet(({} \cup {"BTC"}) \cup {"ETH"})
      BY <2>1, FS_AddElement
    <2>3. T = ({} \cup {"BTC"}) \cup {"ETH"}
      OBVIOUS
    <2>4. QED
      BY <2>2, <2>3
  <1>2. IsFiniteSet(R)
    <2>1. IsFiniteSet({} \cup {"stable"})
      BY FS_EmptySet, FS_AddElement
    <2>2. IsFiniteSet(({} \cup {"stable"}) \cup {"stale"})
      BY <2>1, FS_AddElement
    <2>3. IsFiniteSet((({} \cup {"stable"}) \cup {"stale"}) \cup {"logical"})
      BY <2>2, FS_AddElement
    <2>4. R = (({} \cup {"stable"}) \cup {"stale"}) \cup {"logical"}
      OBVIOUS
    <2>5. QED
      BY <2>3, <2>4
  <1>3. IsFiniteSet(Live!Keys)
    BY LiveConstants, FS_Interval
  <1>4. IsFiniteSet(P)
    <2> HIDE DEF T, R
    <2>1. IsFiniteSet(T \X R)
      BY <1>1, <1>2, FS_Product
    <2>2. QED
      BY <1>3, <2>1, FS_Product
  <1>5. f \in Surjection(P, Live!Opportunity)
    <2>1. f \in [P -> Live!Opportunity]
      BY DEF Live!Opportunity, Live!Tickers
    <2>2. ASSUME NEW o \in Live!Opportunity
          PROVE  \E p \in P : f[p] = o
      <3>1. <<<<o.ticker, o.tier>>, o.clears>> \in P
        BY DEF Live!Opportunity, Live!Tickers
      <3>2. f[<<<<o.ticker, o.tier>>, o.clears>>] = o
        BY <3>1 DEF Live!Opportunity
      <3>3. QED
        BY <3>1, <3>2
    <2>3. QED
      BY <2>1, <2>2 DEF Surjection
  <1>6. QED
    <2> HIDE DEF f, P
    <2>1. QED
      BY <1>4, <1>5, FS_Surjection

(* The rows of a tier are its own and the riskless ones, counted apart on  *)
(* its button and on the badge.                                            *)
LEMMA TableCounts ==
  ASSUME NEW k \in Live!Keys, NEW ticker \in Live!Tickers, NEW tier \in {"stable", "stale"},
         NEW t, t = Live!OpportunityTable(Live!Scan(k), ticker, tier)
  PROVE  /\ Live!Cardinality(t.rows) = t.badge + t.counts[tier]
         /\ \A o \in Live!Opportunity :
                o \in t.rows <=> /\ o.ticker = ticker
                                 /\ o.tier = "logical" \/ (o.tier = tier /\ o.clears >= k)
  <1> DEFINE all == {o \in Live!Scan(k) : ticker \in {"all", o.ticker}}
             riskless == {o \in all : o.tier = "logical"}
             judged == {o \in all : o.tier = tier}
  <1>1. /\ t.rows = {o \in all : o.tier = "logical" \/ tier \in {"all", o.tier}}
        /\ t.badge = Live!Cardinality(riskless)
        /\ t.counts[tier] = Live!Cardinality(judged)
    BY DEF Live!OpportunityTable
  <1>2. tier # "all" /\ tier # "logical" /\ ticker # "all"
    BY DEF Live!Tickers
  <1>3. t.rows = riskless \cup judged /\ riskless \cap judged = {}
    BY <1>1, <1>2
  <1>4. riskless \subseteq Live!Opportunity /\ judged \subseteq Live!Opportunity
    BY DEF Live!Scan
  <1>5. \A o \in Live!Opportunity :
            o \in t.rows <=> /\ o.ticker = ticker
                             /\ o.tier = "logical" \/ (o.tier = tier /\ o.clears >= k)
    BY <1>1, <1>2 DEF Live!Scan
  <1> HIDE DEF riskless, judged, all
  <1>6. IsFiniteSet(riskless) /\ IsFiniteSet(judged)
    BY <1>4, OpportunitiesFinite, FS_Subset
  <1>7. Cardinality(riskless) \in Nat /\ Cardinality(judged) \in Nat
    BY <1>6, FS_CardinalityType
  <1>8. Cardinality(t.rows) = Cardinality(riskless) + Cardinality(judged)
    <2>1. Cardinality(riskless \cup judged)
            = Cardinality(riskless) + Cardinality(judged) - Cardinality(riskless \cap judged)
      BY <1>6, FS_Union
    <2>2. Cardinality(riskless \cap judged) = 0
      BY <1>3, FS_EmptySet
    <2>3. QED
      BY <1>3, <1>7, <2>1, <2>2
  <1>9. Live!Cardinality(t.rows) = t.badge + t.counts[tier]
    BY <1>1, <1>8, LiveCardinality
  <1>10. QED
    BY <1>5, <1>9

(* What a page shows is what was picked last, in whatever order the answers*)
(* come: at once where a page cancels, when all are in and none overtook   *)
(* another where it does not; the scanner's rows are just those that clear *)
(* the threshold; the boards are judged by the calibration of their own    *)
(* ticker.  For any number of filters, requests and lost answers.          *)
THEOREM PageShowsWhatWasPicked == Spec => []MatchesFilter
  <1>1. LiveInv => MatchesFilter
    <2>1. SUFFICES ASSUME LiveInv
                   PROVE  Live!MatchesFilter
      BY DEF MatchesFilter
    <2>2. ASSUME at = "audit", shown # Null, ~ui.loading, ~ui.error
          PROVE  shown.key = key
      BY <2>1, <2>2 DEF LiveInv, AuditOK
    <2>3. ASSUME at = "calibration", Live!CalibrationFace = "insight", ~ui.loading, ~ui.error
          PROVE  Live!Insight.named = Live!Insight.from
      <3>1. shown # Null
        BY <2>3 DEF Live!CalibrationFace
      <3>2. shown.key = key
        BY <2>1, <2>3, <3>1 DEF LiveInv, AuditOK
      <3>3. QED
        BY <3>1, <3>2 DEF Live!Insight
    <2>4. ASSUME at = "markets", Live!TableFace = "rows", lost = 0
          PROVE  shown.key = key
      BY <2>1, <2>4 DEF LiveInv, TableOK, Live!TableFace
    <2>5. ASSUME at = "market", reqs = <<>>, ~ui.timer, ~overtook, lost = 0
          PROVE  Live!OrderbookCard = [time |-> key, book |-> key, spinner |-> FALSE]
      <3>1. ui.loading = FALSE
        <4>1. ~ui.loading /\ ui \in Flags
          BY <2>1, <2>5 DEF LiveInv, LiveShape, ScrubberOK
        <4>2. ui.loading \in BOOLEAN
          BY <4>1 DEF Flags
        <4>3. QED
          BY <4>1, <4>2
      <3>2. Live!BookShown.key = key
        <4>1. CASE key = 0
          BY <4>1 DEF Live!BookShown, Live!LatestBook
        <4>2. CASE key # 0
          <5>1. shown # Null /\ shown.key = key
            BY <2>1, <2>5, <4>2 DEF LiveInv, ScrubberOK, Coming
          <5>2. QED
            BY <4>2, <5>1 DEF Live!BookShown
        <4>3. QED
          BY <4>1, <4>2
      <3>3. QED
        BY <3>1, <3>2 DEF Live!OrderbookCard
    <2>6. ASSUME at = "arb", reqs = <<>>, ~overtook, ~Live!ScannerFace.banner,
                 NEW ticker \in Live!Tickers, NEW tier \in {"stable", "stale"}
          PROVE  LET t == Live!OpportunityTable(Live!Scan(shown.key), ticker, tier) IN
                 /\ Live!Cardinality(t.rows) = t.badge + t.counts[tier]
                 /\ \A o \in Live!Opportunity :
                        o \in t.rows <=>
                            /\ o.ticker = ticker
                            /\ o.tier = "logical" \/ (o.tier = tier /\ o.clears >= key)
      <3>1. ~ui.error
        BY <2>6 DEF Live!ScannerFace
      <3>2. shown.key = key /\ key \in Live!Keys
        BY <2>1, <2>6, <3>1 DEF LiveInv, LiveShape, ScannerOK, Coming
      <3>3. QED
        BY <3>2, TableCounts
    <2>7. ASSUME at = "terminal", edge # Null, \A i \in Live!Out("edge") : ~reqs[i].live
          PROVE  edge = key
      <3>1. \A r \in Members(reqs) : r.what = "edge" => ~r.live
        BY <2>7 DEF Members, Live!Out
      <3>2. QED
        BY <2>1, <2>7, <3>1 DEF LiveInv, JudgeOK
    <2>8. QED
      BY <2>2, <2>3, <2>4, <2>5, <2>6, <2>7 DEF Live!MatchesFilter
  <1>2. QED
    BY <1>1, LiveInvariant, PTL

(* ---------------------- the types of the market pages ------------------ *)

(* Nothing on the wire or on display is newer than the server's data.      *)
LiveBounds ==
    /\ version \in 1 .. MaxVersion /\ moves \in 0 .. MaxMoves /\ lost \in 0 .. MaxLost
    /\ Len(reqs) <= MaxOut /\ \A r \in Members(reqs) : r.got <= version
    /\ shown # Null => shown.version \in 1 .. version
    /\ edge # Null => edge \in Live!Keys

LEMMA SameLength ==
  ASSUME NEW rs \in Seq(Requests), NEW what
  PROVE  Len(Live!Cancelled(rs, what)) = Len(rs)
  <1>1. Len(rs) \in Nat /\ DOMAIN rs = 1 .. Len(rs)
    BY LenProperties
  <1>2. DOMAIN Live!Cancelled(rs, what) = 1 .. Len(rs)
    BY <1>1 DEF Live!Cancelled
  <1>3. Live!Cancelled(rs, what) \in Seq(Requests)
    BY CancelledRequests
  <1>4. /\ Len(Live!Cancelled(rs, what)) \in Nat
        /\ DOMAIN Live!Cancelled(rs, what) = 1 .. Len(Live!Cancelled(rs, what))
    BY <1>3, LenProperties
  <1>5. QED
    BY <1>1, <1>2, <1>4

(* What is sent, and what is cancelled, is unanswered or was there before. *)
LEMMA SentBounded ==
  ASSUME LiveInv, LiveBounds, NEW what \in {"edge", "data"}, NEW k \in Live!Keys,
         NEW rs \in Seq(Requests), \A q \in Members(rs) : q.got <= version
  PROVE  /\ Append(rs, Live!Request(what, k)) \in Seq(Requests)
         /\ \A q \in Members(Append(rs, Live!Request(what, k))) : q.got <= version
         /\ Live!Cancelled(rs, what) \in Seq(Requests)
         /\ \A q \in Members(Live!Cancelled(rs, what)) : q.got <= version
  <1>1. Live!Request(what, k) \in Requests /\ Live!Request(what, k).got <= version
    BY NewRequest DEF Live!Request, LiveInv, LiveShape
  <1>2. /\ Append(rs, Live!Request(what, k)) \in Seq(Requests)
        /\ \A q \in Members(Append(rs, Live!Request(what, k))) : q.got <= version
    BY <1>1, Appended
  <1>3. ASSUME NEW q \in Members(Live!Cancelled(rs, what))
        PROVE  q.got <= version
    <2>1. PICK r \in Members(rs) : q = Cancels(r, what)
      BY <1>3, CancelledRequests
    <2>2. r \in Requests
      <3>1. DOMAIN rs = 1 .. Len(rs)
        BY LenProperties
      <3>2. \A j \in 1 .. Len(rs) : rs[j] \in Requests
        BY ElementOfSeq
      <3>3. QED
        BY <3>1, <3>2 DEF Members
    <2>3. q.got = r.got
      BY <2>1, <2>2, CancelsOne
    <2>4. r.got <= version
      OBVIOUS
    <2>5. QED
      BY <2>3, <2>4
  <1>4. QED
    BY <1>2, <1>3, CancelledRequests

(* A step that asks for something.                                         *)
LEMMA AskedBounded ==
  ASSUME LiveInv, LiveBounds, version' = version, lost' = lost, edge' = edge,
         moves' \in 0 .. MaxMoves, shown' \in {shown, Null},
         Len(reqs') <= MaxOut, \A q \in Members(reqs') : q.got <= version
  PROVE  LiveBounds'
  BY DEF LiveBounds

LEMMA UserBounded ==
  ASSUME LiveInv, LiveBounds, NEW k \in Live!Keys,
         \/ Live!PickTicker(k) \/ Live!ScrubTo(k) \/ Live!SetMinEdge(k)
         \/ Live!PickWindow(k) \/ Live!PickFilter(k) \/ Live!PickTab(k)
  PROVE  LiveBounds'
  <1>1. /\ reqs \in Seq(Requests) /\ \A q \in Members(reqs) : q.got <= version
        /\ Len(reqs) \in Nat /\ Len(reqs) <= MaxOut /\ moves \in 0 .. MaxMoves
    BY LenProperties DEF LiveInv, LiveShape, LiveBounds
  <1>2. version' = version /\ lost' = lost /\ edge' = edge /\ moves' \in 0 .. MaxMoves
    <2>1. UNCHANGED <<version, lost, edge>> /\ moves < MaxMoves /\ moves' = moves + 1
      BY DEF Live!PickTicker, Live!ScrubTo, Live!SetMinEdge, Live!PickWindow, Live!PickFilter,
             Live!PickTab, Live!Picked
    <2>2. QED
      BY <1>1, <2>1, LiveConstants
  <1>3. shown' \in {shown, Null}
    BY DEF Live!PickTicker, Live!ScrubTo, Live!SetMinEdge, Live!PickWindow, Live!PickFilter, Live!PickTab
  <1> DEFINE Fine(rs) == rs \in Seq(Requests) /\ \A q \in Members(rs) : q.got <= version
             d == Live!Cancelled(reqs, "data")
             e == Live!Cancelled(reqs, "edge")
  <1>4. /\ Fine(d) /\ Fine(e) /\ Fine(Append(reqs, Live!Request("data", k)))
        /\ Len(d) <= MaxOut
    BY <1>1, SentBounded, SameLength
  <1>5. /\ Fine(Append(d, Live!Request("data", k))) /\ Fine(Append(e, Live!Request("edge", k)))
    BY <1>4, SentBounded
  <1>6. Fine(Append(Append(e, Live!Request("edge", k)), Live!Request("data", k)))
    BY <1>5, SentBounded
  <1> HIDE DEF Fine, d, e
  <1>7. Len(reqs') <= MaxOut /\ Fine(reqs')
    <2>1. CASE Live!PickTicker(k)
      BY <1>5, <1>6, <2>1 DEF Live!PickTicker, Live!Send, e
    <2>2. CASE Live!ScrubTo(k)
      BY <1>1, <2>2 DEF Live!ScrubTo, Fine
    <2>3. CASE Live!SetMinEdge(k)
      BY <1>4, <2>3 DEF Live!SetMinEdge, Live!Send
    <2>4. CASE Live!PickWindow(k) \/ Live!PickFilter(k)
      BY <1>5, <2>4 DEF Live!PickWindow, Live!PickFilter, Live!Send, d
    <2>5. CASE Live!PickTab(k)
      BY <1>4, <1>5, <2>5 DEF Live!PickTab, Live!Send, d
    <2>6. QED
      BY <2>1, <2>2, <2>3, <2>4, <2>5
  <1>8. QED
    BY <1>2, <1>3, <1>7, AskedBounded DEF Fine

LEMMA TimerBounded ==
  ASSUME LiveInv, LiveBounds,
         Live!TogglePause \/ Live!PollBoards \/ Live!PollArb \/ Live!FetchBook
  PROVE  LiveBounds'
  <1>1. /\ reqs \in Seq(Requests) /\ \A q \in Members(reqs) : q.got <= version
        /\ key \in Live!Keys /\ moves \in 0 .. MaxMoves
    BY DEF LiveInv, LiveShape, LiveBounds
  <1>2. UNCHANGED <<version, lost, edge, shown>>
    BY DEF Live!TogglePause, Live!PollBoards, Live!PollArb, Live!FetchBook, Live!Ticked
  <1>3. moves' \in 0 .. MaxMoves
    <2>1. moves' = moves \/ (moves < MaxMoves /\ moves' = moves + 1)
      BY DEF Live!TogglePause, Live!PollBoards, Live!PollArb, Live!FetchBook, Live!Ticked
    <2>2. QED
      BY <1>1, <2>1, LiveConstants
  <1>4. reqs' = Append(reqs, Live!Request("data", key)) /\ Len(reqs') <= MaxOut
    BY DEF Live!TogglePause, Live!PollBoards, Live!PollArb, Live!FetchBook, Live!Send
  <1>5. \A q \in Members(reqs') : q.got <= version
    BY <1>1, <1>4, SentBounded
  <1>6. QED
    BY <1>2, <1>3, <1>4, <1>5, AskedBounded

LEMMA ServerBounded ==
  ASSUME LiveInv, LiveBounds, Live!Change \/ \E i : Live!Answer(i)
  PROVE  LiveBounds'
  <1>1. /\ reqs \in Seq(Requests) /\ version \in 1 .. MaxVersion /\ Len(reqs) <= MaxOut
        /\ \A q \in Members(reqs) : q.got <= version
        /\ lost \in 0 .. MaxLost /\ MaxLost \in Nat /\ MaxVersion \in Nat
        /\ \A j \in DOMAIN reqs : reqs[j] \in Requests
    BY LiveConstants, LenProperties, ElementOfSeq, PlatformAssumption
    DEF LiveInv, LiveShape, LiveBounds, Live!LivePagesAssumption
  <1>2. CASE Live!Change
    <2>1. /\ version' = version + 1 /\ version' \in 1 .. MaxVersion
          /\ UNCHANGED <<shown, edge, reqs, moves, lost>>
      BY <1>1, <1>2 DEF Live!Change
    <2>2. ASSUME NEW r \in Members(reqs)
          PROVE  r.got <= version'
      <3>1. r \in Requests
        BY <1>1 DEF Members
      <3>2. r.got \in Nat /\ r.got <= version
        BY <1>1, <3>1 DEF Requests
      <3>3. QED
        BY <1>1, <2>1, <3>2
    <2>3. shown' # Null => shown'.version \in 1 .. version'
      BY <1>1, <2>1 DEF LiveBounds
    <2>4. QED
      BY <1>1, <2>1, <2>2, <2>3 DEF LiveBounds
  <1>3. ASSUME NEW i, Live!Answer(i)
        PROVE  LiveBounds'
    <2>1. /\ i \in DOMAIN reqs /\ UNCHANGED <<shown, edge, version, moves>>
          /\ lost' \in 0 .. MaxLost
          /\ \/ reqs' = [reqs EXCEPT ![i].done = TRUE, ![i].got = version]
             \/ reqs' = [reqs EXCEPT ![i].done = TRUE]
      BY <1>1, <1>3 DEF Live!Answer
    <2>2. DOMAIN reqs' = DOMAIN reqs /\ Len(reqs') = Len(reqs)
      <3>1. \E q : reqs' = [reqs EXCEPT ![i] = q]
        BY <2>1
      <3>2. QED
        BY <1>1, <2>1, <3>1, LenProperties
    <2>3. ASSUME NEW j \in DOMAIN reqs
          PROVE  reqs'[j].got <= version
      <3>1. reqs[j] \in Requests /\ reqs[j].got <= version
        BY <1>1, <2>3 DEF Members
      <3>2. reqs'[j].got \in {reqs[j].got, version}
        BY <2>1, <3>1 DEF Requests
      <3>3. QED
        BY <1>1, <3>1, <3>2
    <2>4. \A q \in Members(reqs') : q.got <= version
      BY <2>2, <2>3 DEF Members
    <2>5. QED
      BY <1>1, <2>1, <2>2, <2>4 DEF LiveBounds
  <1>4. QED
    BY <1>2, <1>3

LEMMA ReceiveBounded ==
  ASSUME LiveInv, LiveBounds, NEW i, Live!Receive(i)
  PROVE  LiveBounds'
  <1>1. PICK page, what : Live!Received(page, what, i)
    BY DEF Live!Receive, Live!ReceiveBoards, Live!ReceiveEdge, Live!ReceiveBook, Live!ReceiveArb,
           Live!ReceiveAudit, Live!ReceiveBuckets, Live!ReceiveMarkets
  <1>2. /\ i \in DOMAIN reqs /\ reqs' = Live!RemoveAt(reqs, i) /\ UNCHANGED <<version, moves, lost>>
    BY <1>1 DEF Live!Received, Live!Out
  <1>3. /\ reqs \in Seq(Requests) /\ i \in 1 .. Len(reqs) /\ reqs[i] \in Requests
        /\ reqs[i].got <= version /\ version \in Nat \ {0} /\ Len(reqs) \in Nat
    BY <1>2, OneOfMany, LenProperties DEF LiveInv, LiveShape, LiveBounds
  <1>4. Len(reqs') <= MaxOut /\ \A q \in Members(reqs') : q.got <= version
    <2>1. Len(reqs') = Len(reqs) - 1
      BY <1>2, <1>3, RemovedAt
    <2>2. Members(reqs') \subseteq Members(reqs)
      BY <1>2, <1>3, Removed
    <2>3. QED
      BY <1>3, <2>1, <2>2, LiveConstants DEF LiveBounds
  <1>5. shown' # Null => shown'.version \in 1 .. version
    <2>1. shown' = shown \/ (Live!Ok(i) /\ shown' = Live!Reply(i))
      BY DEF Live!Receive, Live!ReceiveBoards, Live!ReceiveEdge, Live!ReceiveBook, Live!ReceiveArb,
             Live!ReceiveAudit, Live!ReceiveBuckets, Live!ReceiveMarkets
    <2>2. CASE Live!Ok(i) /\ shown' = Live!Reply(i)
      <3>1. shown'.version = reqs[i].got /\ reqs[i].got # 0 /\ reqs[i].got \in Nat
        BY <1>3, <2>2 DEF Live!Ok, Live!Reply, Requests
      <3>2. QED
        BY <1>3, <3>1
    <2>3. CASE shown' = shown
      BY <2>3 DEF LiveBounds
    <2>4. QED
      BY <2>1, <2>2, <2>3
  <1>6. edge' # Null => edge' \in Live!Keys
    <2>1. edge' = edge \/ edge' = Null \/ edge' = reqs[i].key
      BY DEF Live!Receive, Live!ReceiveBoards, Live!ReceiveEdge, Live!ReceiveBook, Live!ReceiveArb,
             Live!ReceiveAudit, Live!ReceiveBuckets, Live!ReceiveMarkets
    <2>2. reqs[i].key \in Live!Keys
      BY <1>3 DEF Requests
    <2>3. QED
      BY <2>1, <2>2 DEF LiveBounds
  <1>7. QED
    BY <1>2, <1>4, <1>5, <1>6 DEF LiveBounds

LEMMA LiveStartsBounded ==
  ASSUME Live!Init
  PROVE  LiveBounds
  <1>1. /\ MaxVersion \in Nat \ {0} /\ MaxOut \in Nat \ {0, 1} /\ MaxMoves \in Nat /\ MaxLost \in Nat
    BY PlatformAssumption DEF Live!LivePagesAssumption
  <1>2. /\ version = 1 /\ moves = 0 /\ lost = 0 /\ edge = Null
        /\ shown # Null => shown.version = 1
    BY DEF Live!Init, Live!LatestBook
  <1>3. Len(reqs) <= 2 /\ \A r \in Members(reqs) : r.got = 0
    <2>1. \/ reqs = <<Live!Request("edge", 0), Live!Request("data", 0)>>
          \/ reqs = <<Live!Request("data", 0)>>
          \/ reqs = <<>>
      BY DEF Live!Init, Live!Asked, Live!Pages
    <2> DEFINE e == Live!Request("edge", 0)  d == Live!Request("data", 0)
    <2>2. e.got = 0 /\ d.got = 0
      BY DEF Live!Request
    <2> HIDE DEF e, d
    <2>3. CASE reqs = <<e, d>>
      <3>1. Len(reqs) = 2 /\ DOMAIN reqs = 1 .. 2 /\ reqs[1] = e /\ reqs[2] = d
        BY <2>3
      <3>2. QED
        BY <2>2, <3>1 DEF Members
    <2>4. CASE reqs = <<d>>
      <3>1. Len(reqs) = 1 /\ DOMAIN reqs = 1 .. 1 /\ reqs[1] = d
        BY <2>4
      <3>2. QED
        BY <2>2, <3>1 DEF Members
    <2>5. CASE reqs = <<>>
      <3>1. Len(reqs) = 0 /\ DOMAIN reqs = {}
        BY <2>5
      <3>2. QED
        BY <3>1 DEF Members
    <2>6. QED
      BY <2>1, <2>3, <2>4, <2>5 DEF e, d
  <1>4. QED
    BY <1>1, <1>2, <1>3 DEF LiveBounds

LEMMA LiveTypes == Spec => []Live!TypeOK
  <1>1. Init => LiveBounds
    BY LiveStartsBounded DEF Init
  <1>2. LiveInv /\ LiveBounds /\ [Next]_vars => LiveBounds'
    <2>1. SUFFICES ASSUME LiveInv, LiveBounds, [Next]_vars
                   PROVE  LiveBounds'
      OBVIOUS
    <2>2. CASE UNCHANGED liveVars
      BY <2>1, <2>2 DEF liveVars, LiveBounds
    <2>3. CASE Live!Next
      BY <2>1, <2>3, UserBounded, TimerBounded, ServerBounded, ReceiveBounded DEF Live!Next
    <2>4. QED
      BY <2>1, <2>2, <2>3, LiveAlone
  <1>3. LiveInv /\ LiveBounds => Live!TypeOK
    <2>1. SUFFICES ASSUME LiveInv, LiveBounds
                   PROVE  Live!TypeOK
      OBVIOUS
    <2>2. ui \in Flags /\ shown \in Answers \cup {Null}
      BY <2>1 DEF LiveInv, LiveShape
    <2>3. DOMAIN ui = DOMAIN Live!Quiet /\ \A flag \in DOMAIN ui : ui[flag] \in BOOLEAN
      BY <2>2 DEF Flags, Live!Quiet
    <2>4. shown # Null => shown.key \in Live!Keys
      BY <2>2 DEF Answers
    <2>5. QED
      BY <2>1, <2>3, <2>4 DEF LiveInv, LiveShape, LiveBounds, Live!TypeOK
  <1>4. QED
    BY <1>1, <1>2, <1>3, LiveInvariant, PTL DEF Spec

(* ------------------------------ paper pages ---------------------------- *)

LEMMA PageOperators ==
  /\ \A S : Paper!Cardinality(S) = Cardinality(S)
  /\ \A f, S : Paper!SumFunctionOnSet(f, S) = SumFunctionOnSet(f, S)
  /\ \A sums : Paper!Drawdown(sums) = Fall(sums)
  <1>1. \A S : Paper!Cardinality(S) = Cardinality(S)
    BY DEF Paper!Cardinality, Cardinality
  <1>2. \A f, S : Paper!SumFunctionOnSet(f, S) = SumFunctionOnSet(f, S)
    BY DEF Paper!SumFunctionOnSet, Paper!FoldFunctionOnSet, Paper!MapThenFoldSet,
           SumFunctionOnSet, FoldFunctionOnSet, MapThenFoldSet
  <1>3. \A sums : Paper!Drawdown(sums) = Fall(sums)
    BY DEF Paper!Drawdown, Paper!FoldLeft, Paper!MapThenFoldSet, Paper!Max, Max, Paper!Top,
           Fall, FallRule, Climb, Higher, Sea
  <1>4. QED
    BY <1>1, <1>2, <1>3

(* The rows of a list of positions: their nets, and the ranks in which     *)
(* they closed, which count from one.                                      *)
Deals == [net : Int, rank : Nat]
NetsOf(ps) == [i \in DOMAIN ps |-> ps[i].net]
RanksOf(ps) == [i \in DOMAIN ps |-> ps[i].rank]
Numbered(ps) ==
    \A i, j \in Paper!ClosedAt(ps) :
        /\ ps[i].rank <= Cardinality(Paper!ClosedAt(ps))
        /\ ps[i].rank = ps[j].rank => i = j

LEMMA Rows ==
  ASSUME NEW ps \in Seq(Deals)
  PROVE  /\ Len(ps) \in Nat /\ DOMAIN ps = 1 .. Len(ps)
         /\ \A i \in 1 .. Len(ps) :
               /\ ps[i] \in Deals /\ ps[i].net \in Int /\ ps[i].rank \in Nat
               /\ NetsOf(ps)[i] = ps[i].net /\ RanksOf(ps)[i] = ps[i].rank
         /\ Paper!ClosedAt(ps) = {i \in 1 .. Len(ps) : ps[i].rank # 0}
  <1>1. Len(ps) \in Nat /\ DOMAIN ps = 1 .. Len(ps) /\ \A i \in 1 .. Len(ps) : ps[i] \in Deals
    BY LenProperties, ElementOfSeq
  <1>2. \A d \in Deals : d.net \in Int /\ d.rank \in Nat
    BY DEF Deals
  <1>3. QED
    BY <1>1, <1>2 DEF NetsOf, RanksOf, Paper!ClosedAt, Paper!IsClosed

LEMMA ClosedRows ==
  ASSUME NEW ps \in Seq(Deals)
  PROVE  /\ IsFiniteSet(Paper!ClosedAt(ps)) /\ Cardinality(Paper!ClosedAt(ps)) \in Nat
         /\ Paper!ClosedAt(ps) \subseteq 1 .. Len(ps)
  <1>1. Len(ps) \in Nat /\ Paper!ClosedAt(ps) \in SUBSET (1 .. Len(ps))
    BY Rows
  <1>2. IsFiniteSet(1 .. Len(ps))
    BY <1>1, FS_Interval
  <1>3. QED
    BY <1>1, <1>2, FS_Subset, FS_CardinalityType

LEMMA NetSumIs ==
  ASSUME NEW ps \in Seq(Deals), NEW S, S \subseteq 1 .. Len(ps)
  PROVE  Paper!NetSum(ps, S) = SumOver(NetsOf(ps), S) /\ Integral(NetsOf(ps), S)
  <1>1. [i \in S |-> ps[i].net] = [i \in S |-> NetsOf(ps)[i]]
    BY Rows
  <1>2. Paper!NetSum(ps, S) = SumFunctionOnSet([i \in S |-> ps[i].net], S)
    BY PageOperators DEF Paper!NetSum
  <1>3. Integral(NetsOf(ps), S)
    BY Rows DEF Integral
  <1>4. QED
    BY <1>1, <1>2, <1>3 DEF SumOver

LEMMA NumberedRows ==
  ASSUME NEW ps \in Seq(Deals), Numbered(ps)
  PROVE  Ranked(Paper!ClosedAt(ps), RanksOf(ps), Cardinality(Paper!ClosedAt(ps)))
  <1> DEFINE C == Paper!ClosedAt(ps)
  <1>1. IsFiniteSet(C) /\ Cardinality(C) \in Nat
    BY ClosedRows
  <1>2. \A i \in C : RanksOf(ps)[i] = ps[i].rank /\ ps[i].rank \in Nat /\ ps[i].rank # 0
    BY Rows
  <1>3. \A i, j \in C : /\ ps[i].rank <= Cardinality(C)
                        /\ ps[i].rank = ps[j].rank => i = j
    BY DEF Numbered
  <1> HIDE DEF C
  <1>4. \A i \in C : RanksOf(ps)[i] \in 1 .. Cardinality(C)
    BY <1>1, <1>2, <1>3
  <1>5. \A i, j \in C : RanksOf(ps)[i] = RanksOf(ps)[j] => i = j
    BY <1>2, <1>3
  <1>6. Ranked(C, RanksOf(ps), Cardinality(C))
    BY <1>1, <1>4, <1>5, RankedByCount
  <1>7. QED
    BY <1>6 DEF C

(* ------------------------ what the figures show ------------------------ *)

(* A curve that fits a list of positions: it has a point for each closed   *)
(* one and climbs there by its net.                                        *)
Fits(curve, ps) ==
    /\ ps \in Seq(Deals) /\ Numbered(ps)
    /\ Climbs(curve, Paper!ClosedAt(ps), RanksOf(ps), NetsOf(ps))
    /\ Len(curve) = Cardinality(Paper!ClosedAt(ps))

LEMMA FinalIsTotal ==
  ASSUME NEW ps, NEW curve, Fits(curve, ps), curve # Null
  PROVE  /\ Paper!FinalNet(curve) = Paper!NetSum(ps, Paper!ClosedAt(ps))
         /\ Paper!FinalNet(curve) \in Int
  <1> DEFINE C == Paper!ClosedAt(ps)  n == Len(curve)
  <1>1. Ranked(C, RanksOf(ps), n) /\ curve \in Seq(Int) /\ n \in Nat
    BY NumberedRows, LenProperties DEF Fits, Climbs
  <1>2. Height(curve, n) \in Int /\ Height(curve, n) = SumOver(NetsOf(ps), C)
    <2>1. First(C, RanksOf(ps), n) = C /\ n \in 0 .. n
      BY <1>1, FirstOnes
    <2>2. QED
      BY <1>1, <2>1, HeightIsSum DEF Fits
  <1>3. Paper!NetSum(ps, C) = SumOver(NetsOf(ps), C)
    BY ClosedRows, NetSumIs DEF Fits
  <1>4. Paper!FinalNet(curve) = Height(curve, n)
    <2>1. curve = <<>> <=> n = 0
      BY <1>1, EmptySeq
    <2>2. QED
      BY <2>1 DEF Paper!FinalNet, Height
  <1>5. QED
    BY <1>2, <1>3, <1>4

LEMMA TileIsBand ==
  ASSUME NEW ps, NEW curve, Fits(curve, ps), Paper!InOrder(ps)
  PROVE  Paper!TileDrawdown(ps) = Paper!BandDrawdown(curve)
  <1> DEFINE C == Paper!ClosedAt(ps)  sums == Paper!RunningSums(ps)  v == NetsOf(ps)
  <1>1. /\ ps \in Seq(Deals) /\ Len(ps) \in Nat /\ DOMAIN ps = 1 .. Len(ps)
        /\ C \subseteq 1 .. Len(ps) /\ IsFiniteSet(C)
    BY Rows, ClosedRows DEF Fits
  <1>2. \A i \in 1 .. Len(ps) : SumOver(v, {j \in C : j <= i}) \in Int
    <2> TAKE i \in 1 .. Len(ps)
    <2> DEFINE S == {j \in C : j <= i}
    <2>1. S \in SUBSET C /\ S \subseteq 1 .. Len(ps)
      BY <1>1
    <2> HIDE DEF S
    <2>2. IsFiniteSet(S) /\ Integral(v, S)
      BY <1>1, <2>1, FS_Subset, NetSumIs
    <2>3. SumOver(v, S) \in Int
      BY <2>2, SumOverInt
    <2>4. QED
      BY <2>3 DEF S
  <1>3. \A i \in 1 .. Len(ps) : Paper!NetSum(ps, {j \in C : j <= i}) = SumOver(v, {j \in C : j <= i})
    <2> TAKE i \in 1 .. Len(ps)
    <2>1. {j \in C : j <= i} \subseteq 1 .. Len(ps)
      BY <1>1
    <2>2. QED
      BY <1>1, <2>1, NetSumIs
  <1>4. sums = [i \in 1 .. Len(ps) |-> SumOver(v, {j \in C : j <= i})]
    BY <1>1, <1>3 DEF Paper!RunningSums
  <1>5. sums \in Seq(Int) /\ Len(sums) = Len(ps)
    BY <1>1, <1>2, <1>4
  <1>6. Lists(sums, C, v)
    BY <1>1, <1>4, <1>5 DEF Lists
  <1>7. Backwards(C, RanksOf(ps))
    BY Rows DEF Backwards, Paper!InOrder, Fits
  <1>8. Ranked(C, RanksOf(ps), Len(curve)) /\ Climbs(curve, C, RanksOf(ps), v)
    BY NumberedRows DEF Fits
  <1> HIDE DEF sums, C, v
  <1>9. Fall(sums) = Fall(curve)
    BY <1>6, <1>7, <1>8, FallBackwards
  <1>10. QED
    BY <1>9, PageOperators DEF Paper!TileDrawdown, Paper!BandDrawdown, sums

LEMMA WinsAreRises ==
  ASSUME NEW ps, NEW curve, Fits(curve, ps)
  PROVE  /\ Paper!Wins(ps) = Paper!Cardinality(Paper!Moves(curve, TRUE))
         /\ Paper!LostAt(ps) # {} <=> Paper!Moves(curve, FALSE) # {}
  <1> DEFINE C == Paper!ClosedAt(ps)  v == NetsOf(ps)
  <1>1. Ranked(C, RanksOf(ps), Len(curve)) /\ Climbs(curve, C, RanksOf(ps), v)
    BY NumberedRows DEF Fits
  <1>2. /\ Cardinality({i \in C : v[i] > 0}) = Cardinality(Rises(curve))
        /\ {i \in C : v[i] < 0} # {} <=> Sinks(curve) # {}
    BY <1>1, StepsAreValues
  <1>3. \A i \in C : v[i] = ps[i].net
    BY Rows DEF Fits
  <1>4. Paper!WonAt(ps) = {i \in C : v[i] > 0} /\ Paper!LostAt(ps) = {i \in C : v[i] < 0}
    BY <1>3 DEF Paper!WonAt, Paper!LostAt
  <1>5. DOMAIN curve = 1 .. Len(curve) /\ Len(curve) \in Nat
    BY <1>1, LenProperties DEF Climbs
  <1>6. \A k \in 1 .. Len(curve) :
           /\ Height(curve, k) = curve[k]
           /\ Height(curve, k - 1) = IF k = 1 THEN 0 ELSE curve[k - 1]
    BY <1>5 DEF Height
  <1>7. Paper!Moves(curve, TRUE) = Rises(curve) /\ Paper!Moves(curve, FALSE) = Sinks(curve)
    BY <1>5, <1>6 DEF Paper!Moves, Rises, Sinks
  <1> HIDE DEF C, v
  <1>8. QED
    BY <1>2, <1>4, <1>7, PageOperators DEF Paper!Wins

LEMMA TilesBySign ==
  ASSUME NEW ps \in Seq(Deals)
  PROVE  LET total == Paper!NetSum(ps, Paper!ClosedAt(ps)) IN
         /\ Paper!Gains(ps) \in Int /\ Paper!Losses(ps) \in Int
         /\ total = Paper!Gains(ps) - Paper!Losses(ps)
         /\ Paper!Gains(ps) >= 0 /\ Paper!Losses(ps) >= 0
         /\ Paper!Wins(ps) \in Nat /\ (Paper!Wins(ps) = 0 => Paper!Gains(ps) = 0)
         /\ Paper!Losses(ps) > 0 <=> Paper!LostAt(ps) # {}
  <1> DEFINE C == Paper!ClosedAt(ps)  v == NetsOf(ps)
             U == Paper!WonAt(ps)  D == Paper!LostAt(ps)
  <1>1. IsFiniteSet(C) /\ C \subseteq 1 .. Len(ps) /\ U \in SUBSET C /\ D \subseteq C
    BY ClosedRows DEF Paper!WonAt, Paper!LostAt
  <1>2. \A i \in C : v[i] = ps[i].net
    BY Rows
  <1>3. U = Above(v, C) /\ D = Below(v, C)
    BY <1>2 DEF Paper!WonAt, Paper!LostAt, Above, Below
  <1>4. /\ Paper!NetSum(ps, C) = SumOver(v, C) /\ Integral(v, C)
        /\ Paper!NetSum(ps, U) = SumOver(v, U) /\ Paper!NetSum(ps, D) = SumOver(v, D)
    <2>1. U \subseteq 1 .. Len(ps) /\ D \subseteq 1 .. Len(ps)
      BY <1>1
    <2> HIDE DEF C, U, D, v
    <2>2. QED
      BY <1>1, <2>1, NetSumIs DEF v
  <1>5. Paper!Gains(ps) = Paper!NetSum(ps, U) /\ Paper!Losses(ps) = 0 - Paper!NetSum(ps, D)
    BY DEF Paper!Gains, Paper!Losses
  <1>6. Paper!Wins(ps) = Cardinality(U)
    BY PageOperators DEF Paper!Wins
  <1> HIDE DEF C, U, D, v
  <1>7. /\ SumOver(v, U) \in Int /\ SumOver(v, D) \in Int /\ IsFiniteSet(U)
        /\ SumOver(v, C) = SumOver(v, U) + SumOver(v, D)
        /\ SumOver(v, U) >= 0 /\ (U # {} => SumOver(v, U) > 0)
        /\ SumOver(v, D) <= 0 /\ (D # {} => SumOver(v, D) < 0)
        /\ (D = {} => SumOver(v, D) = 0)
    <2>1. IsFiniteSet(C) /\ Integral(v, C)
      BY <1>1, <1>4
    <2>2. QED
      BY <1>3, <2>1, SumBySign
  <1>8. Cardinality(U) \in Nat /\ (Cardinality(U) = 0 => U = {})
    BY <1>7, FS_CardinalityType, FS_EmptySet
  <1>9. U = {} => SumOver(v, U) = 0
    BY SumOverNone
  <1>10. QED
    BY <1>4, <1>5, <1>6, <1>7, <1>8, <1>9 DEF C, D

LEMMA GreenRowsAreWins ==
  ASSUME NEW ps \in Seq(Deals), Len(ps) <= TableRows
  PROVE  Paper!Count(Paper!TradesTable(ps), "good") = Paper!Wins(ps)
  <1> DEFINE rows_ == Paper!TradesTable(ps)  n == Len(ps)
  <1>1. n \in Nat /\ TableRows \in Nat /\ DOMAIN ps = 1 .. n
    BY Rows, PlatformAssumption DEF Paper!PaperPagesAssumption
  <1>2. (IF n < TableRows THEN n ELSE TableRows) = n
    <2>1. n <= TableRows
      OBVIOUS
    <2> HIDE DEF n, rows_
    <2>2. QED
      BY <1>1, <2>1
  <1>3. rows_ = [i \in 1 .. n |-> Paper!RowTone(ps[i])]
    BY <1>2 DEF Paper!TradesTable
  <1> HIDE DEF rows_
  <1>4. \A i \in 1 .. n : Paper!RowTone(ps[i]) = "good" <=> ps[i].rank # 0 /\ ps[i].net > 0
    <2> TAKE i \in 1 .. n
    <2> DEFINE d == ps[i]
    <2>1. d.net \in Int /\ d.rank \in Nat
      BY Rows
    <2> HIDE DEF d
    <2>2. Paper!RowTone(d) = "good" <=> d.rank # 0 /\ d.net > 0
      BY <2>1 DEF Paper!RowTone, Paper!IsClosed
    <2>3. QED
      BY <2>2 DEF d
  <1>5. {i \in DOMAIN rows_ : rows_[i] = "good"} = Paper!WonAt(ps)
    BY <1>1, <1>3, <1>4 DEF Paper!WonAt, Paper!ClosedAt, Paper!IsClosed
  <1>6. QED
    BY <1>5 DEF Paper!Count, Paper!Wins, rows_

(* The sentence at the top judges by the sign of the curve's end.          *)
LEMMA SentenceTones ==
  ASSUME NEW f,
         NEW n, n = Cardinality(Paper!ClosedAt(f.positions)), n \in Nat,
         NEW pnl, pnl = Paper!FinalNet(f.equity), pnl \in Int
  PROVE  /\ Paper!HeroTone(f) = "up" => pnl > 0
         /\ Paper!HeroTone(f) = "down" => pnl < 0
  <1>1. Paper!Cardinality(Paper!ClosedAt(f.positions)) = n
    BY PageOperators
  <1>2. Paper!HeroTone(f) = CASE n = 0 -> "waiting"
                              [] n > 0 /\ pnl > 0 -> "up"
                              [] n > 0 /\ pnl < 0 -> "down"
                              [] OTHER -> "even"
    BY <1>1 DEF Paper!HeroTone
  <1>3. QED
    BY <1>2

LEMMA FiguresAgree ==
  ASSUME face.equity # Null, Fits(face.equity, face.positions)
  PROVE  Paper!PageAgreesWithItself
  <1> DEFINE ps == face.positions  curve == face.equity  C == Paper!ClosedAt(ps)
             total == Paper!NetSum(ps, C)
  <1>1. ps \in Seq(Deals) /\ Cardinality(C) \in Nat
    BY ClosedRows DEF Fits
  <1>2. Paper!FinalNet(curve) = total /\ total \in Int
    BY FinalIsTotal
  <1>3. /\ Paper!Gains(ps) \in Int /\ Paper!Losses(ps) \in Int
        /\ total = Paper!Gains(ps) - Paper!Losses(ps)
        /\ Paper!Gains(ps) >= 0 /\ Paper!Losses(ps) >= 0
        /\ Paper!Wins(ps) \in Nat /\ (Paper!Wins(ps) = 0 => Paper!Gains(ps) = 0)
        /\ Paper!Losses(ps) > 0 <=> Paper!LostAt(ps) # {}
    BY <1>1, TilesBySign
  <1>4. /\ Paper!HeroTone(face) = "up" => total > 0
        /\ Paper!HeroTone(face) = "down" => total < 0
    BY <1>1, <1>2, SentenceTones
  <1>5. Paper!InOrder(ps) => Paper!TileDrawdown(ps) = Paper!BandDrawdown(curve)
    BY TileIsBand
  <1>6. /\ Paper!Wins(ps) = Paper!Cardinality(Paper!Moves(curve, TRUE))
        /\ Paper!LostAt(ps) # {} <=> Paper!Moves(curve, FALSE) # {}
    BY WinsAreRises
  <1>7. Len(ps) <= TableRows => Paper!Count(Paper!TradesTable(ps), "good") = Paper!Wins(ps)
    BY <1>1, GreenRowsAreWins
  <1>8. Paper!AverageTone(ps) = IF total > 0 THEN "good" ELSE IF total < 0 THEN "bad" ELSE "none"
    BY DEF Paper!AverageTone
  <1> HIDE DEF total, C, ps, curve
  <1>9. (Paper!WorstTone(ps) = "bad") = (Paper!Moves(curve, FALSE) # {})
    <2>1. Paper!WorstTone(ps) = "bad" <=> Paper!Losses(ps) > 0
      BY DEF Paper!WorstTone
    <2>2. QED
      BY <1>3, <1>6, <2>1
  <1>10. Paper!HeroTone(face) = "up" => Paper!BestTone(ps) = "good"
    BY <1>3, <1>4 DEF Paper!BestTone
  <1>11. /\ Paper!FactorTone(ps) = "good" => total >= 0
         /\ Paper!FactorTone(ps) = "bad" => Paper!AverageTone(ps) = "bad"
    BY <1>2, <1>3, <1>8 DEF Paper!FactorTone
  <1>12. /\ Paper!AverageTone(ps) = "bad" => total < 0
         /\ Paper!HeroTone(face) \in {"up", "down"} =>
               Paper!HeroTone(face) = IF Paper!AverageTone(ps) = "good" THEN "up" ELSE "down"
    BY <1>2, <1>4, <1>8
  <1>13. QED
    BY <1>2, <1>4, <1>5, <1>6, <1>7, <1>9, <1>10, <1>11, <1>12
       DEF Paper!PageAgreesWithItself, ps, curve, total, C

(* ------------------------- the past of a ledger ------------------------ *)

(* What the worker did before: the newest first, as many rows as there     *)
(* were, open where the position closed later; nothing is known of a list  *)
(* that was cut; and as much of the equity curve as there was.             *)
PastOf(ps, all) ==
    /\ ps \in Seq(Deals) /\ Numbered(ps) /\ Len(ps) <= Len(all)
    /\ \A i \in 1 .. Len(ps) :
          /\ ps[i].net = all[Len(ps) + 1 - i].net
          /\ ps[i].rank # 0 => ps[i].rank = all[Len(ps) + 1 - i].rank
ListOf(ps, all) ==
    /\ ps \in Seq(Deals)
    /\ Len(ps) < PageLimit \/ Len(all) <= PageLimit => PastOf(ps, all)
CurveOf(curve, all) ==
    /\ Climbs(curve, Paper!ClosedAt(all), RanksOf(all), NetsOf(all))
    /\ Len(curve) <= Cardinality(Paper!ClosedAt(all))

(* Whatever refresh each of them came with, they fit once they are as long.*)
LEMMA PastMeets ==
  ASSUME NEW all \in Seq(Deals), NEW ps, PastOf(ps, all), NEW curve, CurveOf(curve, all),
         Len(curve) = Cardinality(Paper!ClosedAt(ps))
  PROVE  Fits(curve, ps)
  <1> DEFINE C == Paper!ClosedAt(ps)  m == Len(ps)
  <1>1. ps \in Seq(Deals) /\ Numbered(ps) /\ m \in Nat /\ Len(all) \in Nat /\ m <= Len(all)
    BY LenProperties DEF PastOf
  <1>2. curve \in Seq(Int)
    BY DEF CurveOf, Climbs
  <1>3. ASSUME NEW i \in C
        PROVE  /\ NetsOf(ps)[i] \in Int
               /\ RanksOf(ps)[i] <= Len(curve) =>
                     Height(curve, RanksOf(ps)[i]) = Height(curve, RanksOf(ps)[i] - 1) + NetsOf(ps)[i]
    <2> DEFINE k == m + 1 - i
    <2>1. i \in 1 .. m /\ ps[i].rank # 0
      BY <1>1, Rows
    <2>2. k \in 1 .. Len(all)
      BY <1>1, <2>1
    <2>3. ps[i].net = all[k].net /\ ps[i].rank = all[k].rank
      BY <2>1 DEF PastOf
    <2>4. k \in Paper!ClosedAt(all) /\ NetsOf(all)[k] = all[k].net /\ RanksOf(all)[k] = all[k].rank
      BY <2>1, <2>2, <2>3, Rows
    <2>5. NetsOf(ps)[i] = ps[i].net /\ RanksOf(ps)[i] = ps[i].rank
      BY <1>1, <2>1, Rows
    <2> HIDE DEF k
    <2>6. /\ NetsOf(all)[k] \in Int
          /\ RanksOf(all)[k] <= Len(curve) =>
                Height(curve, RanksOf(all)[k]) = Height(curve, RanksOf(all)[k] - 1) + NetsOf(all)[k]
      BY <2>4 DEF CurveOf, Climbs
    <2>7. QED
      BY <2>3, <2>4, <2>5, <2>6
  <1>4. Climbs(curve, C, RanksOf(ps), NetsOf(ps))
    BY <1>2, <1>3 DEF Climbs
  <1>5. QED
    BY <1>1, <1>4 DEF Fits

(* The ledger only grows, so a list that was cut stays one.                *)
LEMMA ListStays ==
  ASSUME NEW all \in Seq(Deals), NEW more \in Seq(Deals), Len(all) <= Len(more),
         \A ps : PastOf(ps, all) => PastOf(ps, more)
  PROVE  \A ps : ListOf(ps, all) => ListOf(ps, more)
  <1>1. Len(all) \in Nat /\ Len(more) \in Nat /\ PageLimit \in Nat
    BY LenProperties, PlatformAssumption DEF Paper!PaperPagesAssumption
  <1>2. Len(more) <= PageLimit => Len(all) <= PageLimit
    BY <1>1
  <1>3. QED
    BY <1>2 DEF ListOf

(* A position opens; or one that is open closes.                           *)
LEMMA PastOpens ==
  ASSUME NEW all \in Seq(Deals), Numbered(all), NEW net \in Int,
         NEW more, more = Append(all, [net |-> net, rank |-> 0])
  PROVE  /\ more \in Seq(Deals) /\ Numbered(more)
         /\ \A ps : ListOf(ps, all) => ListOf(ps, more)
         /\ \A curve : CurveOf(curve, all) => CurveOf(curve, more)
  <1> DEFINE d == [net |-> net, rank |-> 0]  n == Len(all)
  <1>1. d \in Deals /\ d.rank = 0
    BY DEF Deals
  <1>2. /\ more \in Seq(Deals) /\ Len(more) = n + 1 /\ n \in Nat
        /\ \A i \in 1 .. n : more[i] = all[i]
        /\ more[n + 1].rank = 0
    BY <1>1, LenProperties, AppendProperties
  <1>3. Paper!ClosedAt(more) = Paper!ClosedAt(all)
    <2>1. Paper!ClosedAt(more) = {i \in 1 .. (n + 1) : more[i].rank # 0}
      BY <1>2, Rows
    <2>2. Paper!ClosedAt(all) = {i \in 1 .. n : all[i].rank # 0}
      BY Rows
    <2>3. \A i \in 1 .. (n + 1) : i \in 1 .. n \/ i = n + 1
      BY <1>2
    <2> HIDE DEF n, d
    <2>4. QED
      BY <1>2, <2>1, <2>2, <2>3
  <1>4. \A i \in Paper!ClosedAt(all) :
           /\ i \in 1 .. n /\ more[i] = all[i]
           /\ NetsOf(more)[i] = NetsOf(all)[i] /\ RanksOf(more)[i] = RanksOf(all)[i]
    <2> TAKE i \in Paper!ClosedAt(all)
    <2>1. i \in 1 .. n /\ i \in 1 .. (n + 1)
      BY <1>2, Rows
    <2>2. /\ NetsOf(more)[i] = more[i].net /\ RanksOf(more)[i] = more[i].rank
          /\ NetsOf(all)[i] = all[i].net /\ RanksOf(all)[i] = all[i].rank
      BY <1>2, <2>1, Rows
    <2>3. QED
      BY <1>2, <2>1, <2>2
  <1> HIDE DEF n, d
  <1>5. Numbered(more)
    <2> SUFFICES ASSUME NEW i \in Paper!ClosedAt(all), NEW j \in Paper!ClosedAt(all)
                 PROVE  /\ more[i].rank <= Cardinality(Paper!ClosedAt(all))
                        /\ more[i].rank = more[j].rank => i = j
      BY <1>3 DEF Numbered
    <2>1. more[i] = all[i] /\ more[j] = all[j]
      BY <1>4
    <2>2. /\ all[i].rank <= Cardinality(Paper!ClosedAt(all))
          /\ all[i].rank = all[j].rank => i = j
      BY DEF Numbered
    <2>3. QED
      BY <2>1, <2>2
  <1>6. ASSUME NEW ps, PastOf(ps, all)
        PROVE  PastOf(ps, more)
    <2>1. Len(ps) \in Nat /\ Len(ps) <= n
      BY <1>6, LenProperties DEF PastOf, n
    <2>2. \A i \in 1 .. Len(ps) : more[Len(ps) + 1 - i] = all[Len(ps) + 1 - i]
      <3> TAKE i \in 1 .. Len(ps)
      <3>1. Len(ps) + 1 - i \in 1 .. n
        BY <1>2, <2>1
      <3>2. QED
        BY <1>2, <3>1
    <2>3. Len(ps) <= Len(more)
      BY <1>2, <2>1
    <2>4. QED
      BY <1>6, <2>2, <2>3 DEF PastOf
  <1>7. ASSUME NEW curve, CurveOf(curve, all)
        PROVE  CurveOf(curve, more)
    BY <1>3, <1>4, <1>7 DEF CurveOf, Climbs
  <1>8. Len(all) <= Len(more)
    BY <1>2 DEF n
  <1>9. \A ps : ListOf(ps, all) => ListOf(ps, more)
    BY <1>2, <1>6, <1>8, ListStays
  <1>10. QED
    BY <1>2, <1>5, <1>7, <1>9

LEMMA PastCloses ==
  ASSUME NEW all \in Seq(Deals), Numbered(all), NEW x \in DOMAIN all, ~Paper!IsClosed(all[x]),
         NEW more, more = [all EXCEPT ![x].rank = Paper!Cardinality(Paper!ClosedAt(all)) + 1]
  PROVE  /\ more \in Seq(Deals) /\ Numbered(more)
         /\ \A ps : ListOf(ps, all) => ListOf(ps, more)
         /\ \A curve : CurveOf(curve, all) => CurveOf(curve, more)
  <1> DEFINE C == Paper!ClosedAt(all)  r == Cardinality(C)  n == Len(all)
             d == [all[x] EXCEPT !.rank = r + 1]
  <1>1. /\ n \in Nat /\ DOMAIN all = 1 .. n /\ x \in 1 .. n /\ all[x] \in Deals /\ all[x].rank = 0
        /\ IsFiniteSet(C) /\ r \in Nat /\ C \subseteq 1 .. n
    BY Rows, ClosedRows DEF Paper!IsClosed
  <1>2. d \in Deals /\ d.net = all[x].net /\ d.rank = r + 1
    <2>1. all[x] \in [net : Int, rank : Nat] /\ r + 1 \in Nat
      BY <1>1 DEF Deals
    <2> HIDE DEF r
    <2>2. QED
      BY <2>1 DEF Deals
  <1>3. more = [all EXCEPT ![x] = d]
    BY PageOperators
  <1> HIDE DEF d
  <1>4. /\ more \in Seq(Deals) /\ Len(more) = n
        /\ \A i \in 1 .. n : more[i] = IF i = x THEN d ELSE all[i]
    BY <1>1, <1>2, <1>3, ExceptSeq
  <1>5. x \notin C /\ \A i \in 1 .. n : i \in C <=> all[i].rank # 0
    BY <1>1, Rows
  <1>6. Paper!ClosedAt(more) = C \cup {x}
    <2>1. Paper!ClosedAt(more) = {i \in 1 .. n : more[i].rank # 0}
      BY <1>4, Rows
    <2>2. \A i \in 1 .. n : more[i].rank # 0 <=> i \in C \/ i = x
      <3> HIDE DEF C, n, r
      <3> TAKE i \in 1 .. n
      <3>1. CASE i = x
        <4>1. more[x] = d /\ d.rank = r + 1
          BY <1>1, <1>2, <1>4
        <4>2. r + 1 # 0
          BY <1>1
        <4>3. QED
          BY <3>1, <4>1, <4>2
      <3>2. CASE i # x
        BY <1>4, <1>5, <3>2
      <3>3. QED
        BY <3>1, <3>2
    <2> HIDE DEF C, n, r
    <2>3. QED
      BY <1>1, <2>1, <2>2
  <1>7. Cardinality(C \cup {x}) = r + 1
    BY <1>1, <1>5, FS_AddElement
  <1>8. \A i \in C : /\ more[i] = all[i] /\ i \in 1 .. n /\ all[i].rank \in 1 .. r
                     /\ NetsOf(more)[i] = NetsOf(all)[i] /\ RanksOf(more)[i] = RanksOf(all)[i]
                     /\ RanksOf(all)[i] = all[i].rank
    <2> TAKE i \in C
    <2>1. i \in 1 .. n /\ i # x /\ all[i].rank # 0 /\ all[i].rank <= r
      BY <1>1, <1>5 DEF Numbered
    <2>2. /\ NetsOf(more)[i] = more[i].net /\ RanksOf(more)[i] = more[i].rank
          /\ NetsOf(all)[i] = all[i].net /\ RanksOf(all)[i] = all[i].rank /\ all[i].rank \in Nat
      BY <1>4, <2>1, Rows
    <2> HIDE DEF C, r
    <2>3. QED
      BY <1>1, <1>4, <2>1, <2>2
  <1>9. Numbered(more)
    <2>1. ASSUME NEW i \in C \cup {x}, NEW j \in C \cup {x}
          PROVE  more[i].rank <= r + 1 /\ (more[i].rank = more[j].rank => i = j)
      <3>1. more[x].rank = r + 1
        BY <1>1, <1>2, <1>4
      <3>2. CASE i \in C /\ j \in C
        <4>1. all[i].rank = all[j].rank => i = j
          BY <3>2 DEF Numbered
        <4> HIDE DEF C, r
        <4>2. QED
          BY <1>1, <1>8, <3>2, <4>1
      <3>3. CASE i = x \/ j = x
        <4> HIDE DEF C, r
        <4>1. QED
          BY <1>1, <1>8, <2>1, <3>1, <3>3
      <3>4. QED
        BY <3>2, <3>3
    <2> DEFINE P == C \cup {x}
    <2>2. Cardinality(P) = r + 1 /\ Paper!ClosedAt(more) = P
      BY <1>6, <1>7
    <2>3. \A i, j \in P : more[i].rank <= r + 1 /\ (more[i].rank = more[j].rank => i = j)
      BY <2>1
    <2> HIDE DEF P, r, C
    <2>4. QED
      BY <2>2, <2>3 DEF Numbered
  <1>10. ASSUME NEW ps, PastOf(ps, all)
         PROVE  PastOf(ps, more)
    <2>1. Len(ps) \in Nat /\ Len(ps) <= n
      BY <1>10, LenProperties DEF PastOf
    <2>2. ASSUME NEW i \in 1 .. Len(ps)
          PROVE  /\ ps[i].net = more[Len(ps) + 1 - i].net
                 /\ ps[i].rank # 0 => ps[i].rank = more[Len(ps) + 1 - i].rank
      <3>1. Len(ps) + 1 - i \in 1 .. n
        BY <1>1, <2>1
      <3>2. /\ ps[i].net = all[Len(ps) + 1 - i].net
            /\ ps[i].rank # 0 => ps[i].rank = all[Len(ps) + 1 - i].rank
        BY <1>10 DEF PastOf
      <3>3. more[Len(ps) + 1 - i] = IF Len(ps) + 1 - i = x THEN d ELSE all[Len(ps) + 1 - i]
        BY <1>4, <3>1
      <3> HIDE DEF C, r, n
      <3>4. QED
        BY <1>1, <1>2, <3>2, <3>3
    <2>3. QED
      BY <1>4, <1>10, <2>1, <2>2 DEF PastOf
  <1>11. ASSUME NEW curve, CurveOf(curve, all)
         PROVE  CurveOf(curve, more)
    <2>1. curve \in Seq(Int) /\ Len(curve) \in Nat /\ Len(curve) <= r
      BY <1>11, LenProperties DEF CurveOf, Climbs
    <2>2. NetsOf(more)[x] \in Int /\ RanksOf(more)[x] = r + 1
      <3>1. NetsOf(more)[x] \in Int /\ RanksOf(more)[x] = more[x].rank
        <4>1. x \in 1 .. Len(more)
          BY <1>1, <1>4
        <4>2. /\ NetsOf(more)[x] = more[x].net /\ more[x].net \in Int
              /\ RanksOf(more)[x] = more[x].rank
          BY <1>4, <4>1, Rows
        <4>3. QED
          BY <4>2
      <3>2. more[x].rank = r + 1
        BY <1>1, <1>2, <1>4
      <3>3. QED
        BY <3>1, <3>2
    <2>3. \A i \in C : /\ NetsOf(all)[i] \in Int
                       /\ RanksOf(all)[i] <= Len(curve) =>
                             Height(curve, RanksOf(all)[i]) = Height(curve, RanksOf(all)[i] - 1) + NetsOf(all)[i]
      BY <1>11 DEF CurveOf, Climbs
    <2>4. ~(r + 1 <= Len(curve)) /\ Len(curve) <= r + 1
      BY <1>1, <2>1
    <2> HIDE DEF C, r, n
    <2>5. ASSUME NEW i \in C \cup {x}
          PROVE  /\ NetsOf(more)[i] \in Int
                 /\ RanksOf(more)[i] <= Len(curve) =>
                       Height(curve, RanksOf(more)[i]) = Height(curve, RanksOf(more)[i] - 1) + NetsOf(more)[i]
      <3>1. CASE i = x
        BY <2>2, <2>4, <3>1
      <3>2. CASE i \in C
        BY <1>8, <2>3, <3>2
      <3>3. QED
        BY <3>1, <3>2
    <2>6. Climbs(curve, C \cup {x}, RanksOf(more), NetsOf(more))
      BY <2>1, <2>5 DEF Climbs
    <2>7. QED
      BY <1>6, <1>7, <2>4, <2>6 DEF CurveOf
  <1>12. Len(all) <= Len(more)
    BY <1>1, <1>4
  <1>13. \A ps : ListOf(ps, all) => ListOf(ps, more)
    BY <1>4, <1>10, <1>12, ListStays
  <1>14. QED
    BY <1>4, <1>9, <1>11, <1>13

(* What the API answers now is of the past.                                *)
LEMMA ReversedNow ==
  ASSUME NEW all \in Seq(Deals), Numbered(all), Len(all) <= PageLimit
  PROVE  PastOf(Paper!Positions(all), all)
  <1> DEFINE ps == Paper!Positions(all)  n == Len(all)
             C == Paper!ClosedAt(ps)  A == Paper!ClosedAt(all)
             f == [i \in C |-> n + 1 - i]
  <1>1. n \in Nat /\ \A i \in 1 .. n : all[i] \in Deals /\ n + 1 - i \in 1 .. n
    BY LenProperties, ElementOfSeq
  <1>2. ps = [i \in 1 .. n |-> all[n + 1 - i]]
    <2>1. PageLimit \in Nat /\ n <= PageLimit
      BY PlatformAssumption DEF Paper!PaperPagesAssumption
    <2>2. (IF n < PageLimit THEN n ELSE PageLimit) = n
      <3> HIDE DEF n, ps
      <3>1. QED
        BY <1>1, <2>1
    <2>3. QED
      BY <2>2 DEF Paper!Positions
  <1>3. ps \in Seq(Deals) /\ Len(ps) = n
    <2>1. \A i \in 1 .. n : all[n + 1 - i] \in Deals
      BY <1>1
    <2> HIDE DEF ps, n
    <2>2. ps \in [1 .. n -> Deals]
      BY <1>2, <2>1
    <2>3. QED
      BY <1>1, <2>2
  <1> HIDE DEF ps
  <1>4. \A i \in 1 .. n : ps[i] = all[n + 1 - i]
    BY <1>2
  <1>5. /\ C = {i \in 1 .. n : ps[i].rank # 0} /\ A = {i \in 1 .. n : all[i].rank # 0}
        /\ IsFiniteSet(C) /\ IsFiniteSet(A)
    BY <1>3, Rows, ClosedRows
  <1> HIDE DEF n, C, A
  <1>6. \A i \in C : i \in 1 .. n /\ n + 1 - i \in A /\ ps[i] = all[n + 1 - i]
    BY <1>1, <1>4, <1>5
  <1>7. \A k \in A : k \in 1 .. n /\ n + 1 - k \in C
    <2> TAKE k \in A
    <2>1. k \in 1 .. n /\ all[k].rank # 0
      BY <1>5
    <2>2. n + 1 - k \in 1 .. n /\ n + 1 - (n + 1 - k) = k
      BY <1>1, <2>1
    <2>3. ps[n + 1 - k] = all[k]
      BY <1>4, <2>2
    <2>4. QED
      BY <1>5, <2>1, <2>2, <2>3
  <1>8. f \in Bijection(C, A)
    <2>1. f \in [C -> A] /\ \A i \in C : f[i] = n + 1 - i
      BY <1>6
    <2> HIDE DEF f
    <2>2. \A i, j \in C : f[i] = f[j] => i = j
      BY <1>1, <1>6, <2>1
    <2>3. \A k \in A : \E i \in C : f[i] = k
      <3> TAKE k \in A
      <3>1. n + 1 - k \in C /\ n + 1 - (n + 1 - k) = k
        BY <1>1, <1>7
      <3>2. QED
        BY <2>1, <3>1
    <2>4. QED
      BY <2>1, <2>2, <2>3 DEF Bijection, Injection, Surjection, IsInjective
  <1>9. Cardinality(C) = Cardinality(A)
    <2>1. ExistsBijection(C, A)
      BY <1>8 DEF ExistsBijection
    <2>2. QED
      BY <1>5, <2>1, FS_Bijection
  <1>10. Numbered(ps)
    <2> SUFFICES ASSUME NEW i \in C, NEW j \in C
                 PROVE  ps[i].rank <= Cardinality(C) /\ (ps[i].rank = ps[j].rank => i = j)
      BY DEF Numbered, C
    <2>1. /\ n + 1 - i \in A /\ n + 1 - j \in A /\ ps[i] = all[n + 1 - i] /\ ps[j] = all[n + 1 - j]
          /\ i \in Int /\ j \in Int
      BY <1>6
    <2>2. /\ all[n + 1 - i].rank <= Cardinality(A)
          /\ all[n + 1 - i].rank = all[n + 1 - j].rank => n + 1 - i = n + 1 - j
      BY <2>1 DEF Numbered, A
    <2>3. QED
      BY <1>1, <1>9, <2>1, <2>2
  <1>11. QED
    BY <1>1, <1>3, <1>4, <1>10 DEF PastOf, ps, n

LEMMA ListedNow ==
  ASSUME NEW all \in Seq(Deals), Numbered(all)
  PROVE  ListOf(Paper!Positions(all), all)
  <1> DEFINE n == Len(all)  ps == Paper!Positions(all)
             m == IF n < PageLimit THEN n ELSE PageLimit
  <1>1. /\ n \in Nat /\ PageLimit \in Nat /\ \A i \in 1 .. n : all[i] \in Deals
    BY LenProperties, ElementOfSeq, PlatformAssumption DEF Paper!PaperPagesAssumption
  <1>2. ps = [i \in 1 .. m |-> all[n + 1 - i]]
    BY DEF Paper!Positions
  <1> HIDE DEF n, ps
  <1>3. m \in Nat /\ \A i \in 1 .. m : n + 1 - i \in 1 .. n
    BY <1>1
  <1>4. n > PageLimit => m = PageLimit
    BY <1>1
  <1> HIDE DEF m
  <1>5. ps \in [1 .. m -> Deals]
    BY <1>1, <1>2, <1>3
  <1>6. ps \in Seq(Deals) /\ Len(ps) = m
    BY <1>3, <1>5
  <1>7. CASE n <= PageLimit
    BY <1>6, <1>7, ReversedNow DEF ListOf, n, ps
  <1>8. CASE n > PageLimit
    <2>1. ~(Len(ps) < PageLimit) /\ ~(n <= PageLimit)
      BY <1>1, <1>4, <1>6, <1>8
    <2>2. QED
      BY <1>6, <2>1 DEF ListOf, n, ps
  <1>9. QED
    BY <1>1, <1>7, <1>8

LEMMA CurveNow ==
  ASSUME NEW all \in Seq(Deals), Numbered(all)
  PROVE  CurveOf(Paper!Equity(all), all)
  <1> DEFINE C == Paper!ClosedAt(all)  r == Cardinality(C)  rk == RanksOf(all)  v == NetsOf(all)
             curve == Paper!Equity(all)
  <1>1. /\ Ranked(C, rk, r) /\ r \in Nat /\ IsFiniteSet(C) /\ C \subseteq 1 .. Len(all)
        /\ Paper!Cardinality(C) = r
    BY NumberedRows, ClosedRows, PageOperators
  <1>2. \A i \in C : all[i].rank = rk[i] /\ rk[i] \in 1 .. r
    BY <1>1, Rows DEF Ranked
  <1>3. \A k \in 1 .. r : Paper!NetSum(all, {i \in C : all[i].rank <= k}) = SumOver(v, First(C, rk, k))
    <2> TAKE k \in 1 .. r
    <2>1. {i \in C : all[i].rank <= k} = First(C, rk, k)
      BY <1>2 DEF First
    <2>2. First(C, rk, k) \subseteq 1 .. Len(all)
      BY <1>1 DEF First
    <2>3. QED
      BY <2>1, <2>2, NetSumIs
  <1>4. curve = [k \in 1 .. r |-> SumOver(v, First(C, rk, k))]
    BY <1>1, <1>3 DEF Paper!Equity
  <1>5. \A S \in SUBSET C : Integral(v, S)
    <2> TAKE S \in SUBSET C
    <2>1. S \subseteq 1 .. Len(all)
      BY <1>1
    <2>2. QED
      BY <2>1, NetSumIs
  <1> HIDE DEF C, rk, v, curve, r
  <1>6. \A k \in 0 .. r : /\ IsFiniteSet(First(C, rk, k)) /\ First(C, rk, k) \in SUBSET C
                          /\ SumOver(v, First(C, rk, k)) \in Int
    <2> TAKE k \in 0 .. r
    <2>1. IsFiniteSet(First(C, rk, k)) /\ First(C, rk, k) \in SUBSET C
      BY <1>1, FirstOnes DEF First
    <2>2. QED
      BY <1>5, <2>1, SumOverInt
  <1>7. curve \in Seq(Int) /\ Len(curve) = r
    <2>1. \A k \in 1 .. r : SumOver(v, First(C, rk, k)) \in Int
      BY <1>1, <1>6
    <2>2. curve \in [1 .. r -> Int]
      BY <1>4, <2>1
    <2>3. QED
      BY <1>1, <2>2
  <1>8. \A k \in 0 .. r : Height(curve, k) = SumOver(v, First(C, rk, k))
    <2> TAKE k \in 0 .. r
    <2>1. CASE k = 0
      <3>1. First(C, rk, 0) = {} /\ SumOver(v, {}) = 0
        BY <1>1, FirstOnes, SumOverNone
      <3>2. QED
        BY <2>1, <3>1 DEF Height
    <2>2. CASE k # 0
      BY <1>1, <1>4, <2>2 DEF Height
    <2>3. QED
      BY <2>1, <2>2
  <1>9. ASSUME NEW i \in C
        PROVE  v[i] \in Int /\ Height(curve, rk[i]) = Height(curve, rk[i] - 1) + v[i]
    <2> DEFINE k == rk[i] - 1  S == First(C, rk, k)
    <2>1. k \in 0 .. r /\ k + 1 \in 0 .. r /\ rk[i] = k + 1
      BY <1>1, <1>2
    <2> HIDE DEF k
    <2>2. First(C, rk, k + 1) = S \cup {i} /\ i \notin S /\ IsFiniteSet(S)
      BY <1>1, <2>1, FirstOnes
    <2>3. S \cup {i} \in SUBSET C /\ SumOver(v, S) \in Int
      BY <1>6, <2>1
    <2> HIDE DEF S
    <2>4. Integral(v, S \cup {i}) /\ v[i] \in Int
      BY <1>5, <2>3 DEF Integral
    <2>5. SumOver(v, S \cup {i}) = SumOver(v, S) + v[i]
      BY <2>2, <2>4, SumOverMore
    <2>6. Height(curve, k + 1) = SumOver(v, S \cup {i}) /\ Height(curve, k) = SumOver(v, S)
      BY <1>8, <2>1, <2>2 DEF S
    <2>7. QED
      BY <2>1, <2>4, <2>5, <2>6 DEF k
  <1>10. Climbs(curve, C, rk, v)
    BY <1>7, <1>9 DEF Climbs
  <1>11. QED
    BY <1>1, <1>7, <1>10 DEF CurveOf, C, rk, v, curve, r

LEMMA NothingYet ==
  ASSUME NEW all \in Seq(Deals)
  PROVE  /\ ListOf(<<>>, all) /\ CurveOf(<<>>, all)
         /\ <<>> \in Seq(Deals) /\ Numbered(<<>>)
  <1>1. /\ <<>> \in Seq(Deals) /\ <<>> \in Seq(Int) /\ Len(<<>>) = 0 /\ DOMAIN <<>> = {}
        /\ Len(all) \in Nat /\ Cardinality(Paper!ClosedAt(all)) \in Nat
    BY EmptySeq, LenProperties, ClosedRows
  <1>2. Paper!ClosedAt(<<>>) = {}
    BY <1>1 DEF Paper!ClosedAt
  <1>3. Numbered(<<>>)
    BY <1>2 DEF Numbered
  <1>4. ListOf(<<>>, all)
    BY <1>1, <1>3 DEF PastOf, ListOf
  <1>5. Climbs(<<>>, Paper!ClosedAt(all), RanksOf(all), NetsOf(all))
    <2> SUFFICES ASSUME NEW i \in Paper!ClosedAt(all)
                 PROVE  NetsOf(all)[i] \in Int /\ ~(RanksOf(all)[i] <= 0)
      BY <1>1 DEF Climbs
    <2>1. i \in 1 .. Len(all) /\ all[i].rank # 0
      BY Rows
    <2>2. /\ NetsOf(all)[i] = all[i].net /\ all[i].net \in Int
          /\ RanksOf(all)[i] = all[i].rank /\ all[i].rank \in Nat
      BY <2>1, Rows
    <2>3. QED
      BY <2>1, <2>2
  <1>6. CurveOf(<<>>, all)
    BY <1>1, <1>5 DEF CurveOf
  <1>7. QED
    BY <1>1, <1>3, <1>4, <1>6

(* ---------------- the inductive invariant of the paper pages ----------- *)

Contents == Paper!Records \cup Seq(Deals) \cup Seq(Int)
Replies == {Null, <<>>} \cup {<<x>> : x \in Contents}
Refreshes == [{"record"} -> Replies] \cup [{"record", "positions", "equity"} -> Replies]
Faces == [record : Paper!Records \cup {Null}, positions : Seq(Deals), equity : Seq(Int) \cup {Null},
          error : BOOLEAN]

(* What a request was answered: the past, whenever that was.               *)
OfThePast(part, x) ==
    /\ part = "record" => x \in Paper!Records
    /\ part = "positions" => ListOf(x, ledger)
    /\ part = "equity" => CurveOf(x, ledger)
ReplyOK(part, a) == a \in Replies /\ (a # Null /\ a # <<>> => OfThePast(part, a[1]))
RefreshOK(r) ==
    /\ r \in Refreshes /\ DOMAIN r = Paper!Parts
    /\ \A part \in DOMAIN r : ReplyOK(part, r[part])

FaceOK ==
    /\ face \in Faces /\ ListOf(face.positions, ledger)
    /\ face.equity # Null => CurveOf(face.equity, ledger)

PaperInv ==
    /\ ledger \in Seq(Deals) /\ Numbered(ledger) /\ Len(ledger) <= MaxPositions
    /\ strategy \in Paper!Records
    /\ actions \in Seq(Paper!Records)
    /\ refreshes \in Seq(Refreshes) /\ \A r \in Members(refreshes) : RefreshOK(r)
    /\ FaceOK

LEMMA PaperConstants ==
  /\ MaxPositions \in Nat /\ Nets \in Seq(Int) /\ Len(Nets) \in Nat /\ MaxPositions <= Len(Nets)
  /\ \A i \in 1 .. MaxPositions : Nets[i] \in Int
  <1>1. MaxPositions \in Nat /\ Nets \in Seq(Int) /\ MaxPositions <= Len(Nets)
    BY PlatformAssumption DEF Paper!PaperPagesAssumption
  <1>2. QED
    BY <1>1, LenProperties, ElementOfSeq

LEMMA Begun ==
  ASSUME NEW rs \in Seq(Refreshes), NEW r \in Refreshes
  PROVE  Append(rs, r) \in Seq(Refreshes) /\ Members(Append(rs, r)) = Members(rs) \cup {r}
  <1> DEFINE n == Len(rs)  a == Append(rs, r)
  <1>1. a \in Seq(Refreshes) /\ Len(a) = n + 1 /\ a[n + 1] = r /\ \A i \in 1 .. n : a[i] = rs[i]
    BY AppendProperties
  <1>2. n \in Nat /\ DOMAIN rs = 1 .. n /\ DOMAIN a = 1 .. (n + 1)
    BY <1>1, LenProperties
  <1>3. DOMAIN a = (DOMAIN rs) \cup {n + 1}
    BY <1>2
  <1> HIDE DEF n, a
  <1>4. Members(a) = Members(rs) \cup {r}
    BY <1>1, <1>2, <1>3 DEF Members
  <1>5. QED
    BY <1>1, <1>4 DEF a

LEMMA Dropped ==
  ASSUME NEW rs \in Seq(Refreshes), NEW i \in DOMAIN rs
  PROVE  /\ Paper!RemoveAt(rs, i) \in Seq(Refreshes)
         /\ Members(Paper!RemoveAt(rs, i)) \subseteq Members(rs)
  <1> DEFINE t == Live!RemoveAt(rs, i)
  <1>1. Paper!RemoveAt(rs, i) = t
    BY DEF Paper!RemoveAt, Live!RemoveAt
  <1>2. Len(rs) \in Nat /\ DOMAIN rs = 1 .. Len(rs) /\ i \in 1 .. Len(rs)
    <2>1. Len(rs) \in Nat /\ DOMAIN rs = 1 .. Len(rs)
      BY LenProperties, Zenon
    <2>2. QED
      BY <2>1
  <1>3. /\ t \in Seq(Refreshes) /\ Len(t) = Len(rs) - 1
        /\ \A k \in 1 .. (Len(rs) - 1) : t[k] = IF k < i THEN rs[k] ELSE rs[k + 1]
    BY <1>2, RemovedAt, Zenon
  <1>4. DOMAIN t = 1 .. (Len(rs) - 1)
    BY <1>3, LenProperties
  <1> HIDE DEF t
  <1>5. \A k \in 1 .. (Len(rs) - 1) : t[k] \in Members(rs)
    <2> TAKE k \in 1 .. (Len(rs) - 1)
    <2>1. k \in 1 .. Len(rs) /\ k + 1 \in 1 .. Len(rs)
      BY <1>2
    <2>2. QED
      BY <1>2, <1>3, <2>1 DEF Members
  <1>6. QED
    BY <1>1, <1>3, <1>4, <1>5 DEF Members

LEMMA Put ==
  ASSUME NEW rs \in Seq(Refreshes), NEW i \in DOMAIN rs, NEW r \in Refreshes,
         NEW t, t = [rs EXCEPT ![i] = r]
  PROVE  t \in Seq(Refreshes) /\ \A q \in Members(t) : q = r \/ q \in Members(rs)
  <1>1. Len(rs) \in Nat /\ DOMAIN rs = 1 .. Len(rs) /\ \A k \in 1 .. Len(rs) : rs[k] \in Refreshes
    BY LenProperties, ElementOfSeq
  <1>2. DOMAIN t = DOMAIN rs /\ \A k \in DOMAIN rs : t[k] = IF k = i THEN r ELSE rs[k]
    OBVIOUS
  <1>3. t \in [1 .. Len(rs) -> Refreshes]
    BY <1>1
  <1>4. t \in Seq(Refreshes)
    BY <1>1, <1>3
  <1>5. QED
    BY <1>2, <1>4 DEF Members

(* ------------------------------- the steps ----------------------------- *)

LEMMA TradeKeeps ==
  ASSUME PaperInv, Paper!Trade
  PROVE  PaperInv'
  <1>1. /\ ledger \in Seq(Deals) /\ Numbered(ledger) /\ Len(ledger) \in Nat
        /\ Len(ledger) <= MaxPositions /\ DOMAIN ledger = 1 .. Len(ledger)
    BY LenProperties DEF PaperInv
  <1>2. UNCHANGED <<site, strategy, face, refreshes, actions>>
    BY DEF Paper!Trade
  <1>3. /\ ledger' \in Seq(Deals) /\ Numbered(ledger') /\ Len(ledger') <= MaxPositions
        /\ \A ps : ListOf(ps, ledger) => ListOf(ps, ledger')
        /\ \A curve : CurveOf(curve, ledger) => CurveOf(curve, ledger')
    <2>1. CASE /\ Len(ledger) < MaxPositions
               /\ ledger' = Append(ledger, [net |-> Nets[Len(ledger) + 1], rank |-> 0])
      <3>1. Nets[Len(ledger) + 1] \in Int
        BY <1>1, <2>1, PaperConstants
      <3>2. Len(ledger') = Len(ledger) + 1
        BY <2>1, <1>1, AppendProperties
      <3>3. Len(ledger') <= MaxPositions
        BY <1>1, <2>1, <3>2, PaperConstants
      <3>4. \A net \in Int : \A more : more = Append(ledger, [net |-> net, rank |-> 0]) =>
               /\ more \in Seq(Deals) /\ Numbered(more)
               /\ \A ps : ListOf(ps, ledger) => ListOf(ps, more)
               /\ \A curve : CurveOf(curve, ledger) => CurveOf(curve, more)
        BY <1>1, PastOpens
      <3>5. QED
        BY <2>1, <3>1, <3>3, <3>4
    <2>2. ASSUME NEW x \in DOMAIN ledger, ~Paper!IsClosed(ledger[x]),
                 ledger' = [ledger EXCEPT ![x].rank = Paper!Cardinality(Paper!ClosedAt(ledger)) + 1]
          PROVE  /\ ledger' \in Seq(Deals) /\ Numbered(ledger') /\ Len(ledger') <= MaxPositions
                 /\ \A ps : ListOf(ps, ledger) => ListOf(ps, ledger')
                 /\ \A curve : CurveOf(curve, ledger) => CurveOf(curve, ledger')
      <3>1. \A more : more = [ledger EXCEPT ![x].rank = Paper!Cardinality(Paper!ClosedAt(ledger)) + 1] =>
               /\ more \in Seq(Deals) /\ Numbered(more)
               /\ \A ps : ListOf(ps, ledger) => ListOf(ps, more)
               /\ \A curve : CurveOf(curve, ledger) => CurveOf(curve, more)
        BY <1>1, <2>2, PastCloses
      <3>2. ledger' \in Seq(Deals) /\ DOMAIN ledger' = DOMAIN ledger
        BY <2>2, <3>1
      <3>3. Len(ledger') = Len(ledger)
        BY <1>1, <3>2, LenProperties
      <3>4. QED
        BY <1>1, <2>2, <3>1, <3>3
    <2>3. QED
      BY <2>1, <2>2 DEF Paper!Trade
  <1>4. ASSUME NEW part, NEW x, OfThePast(part, x)
        PROVE  OfThePast(part, x)'
    BY <1>3, <1>4 DEF OfThePast
  <1>5. ASSUME NEW r, RefreshOK(r)
        PROVE  RefreshOK(r)'
    <2>1. Paper!Parts' = Paper!Parts
      BY <1>2 DEF Paper!Parts
    <2>2. \A part \in DOMAIN r : ReplyOK(part, r[part])'
      BY <1>4, <1>5 DEF RefreshOK, ReplyOK
    <2>3. QED
      BY <1>5, <2>1, <2>2 DEF RefreshOK
  <1>6. /\ refreshes' \in Seq(Refreshes) /\ (\A r \in Members(refreshes) : RefreshOK(r))'
    BY <1>2, <1>5 DEF PaperInv
  <1>7. FaceOK'
    BY <1>2, <1>3 DEF PaperInv, FaceOK
  <1>8. QED
    BY <1>2, <1>3, <1>6, <1>7 DEF PaperInv

(* A step that leaves the ledger alone.                                    *)
LEMMA SameLedger ==
  ASSUME PaperInv, UNCHANGED <<site, ledger>>, strategy' \in Paper!Records,
         actions' \in Seq(Paper!Records), refreshes' \in Seq(Refreshes),
         \A r \in Members(refreshes') : r \in Members(refreshes) \/ RefreshOK(r),
         face' = face \/ FaceOK'
  PROVE  PaperInv'
  <1>1. Paper!Parts' = Paper!Parts
    BY DEF Paper!Parts
  <1>2. \A r : RefreshOK(r) => RefreshOK(r)'
    BY <1>1 DEF RefreshOK, ReplyOK, OfThePast
  <1>3. \A r \in Members(refreshes') : RefreshOK(r)'
    BY <1>2 DEF PaperInv
  <1>4. FaceOK'
    BY DEF PaperInv, FaceOK
  <1>5. QED
    BY <1>3, <1>4 DEF PaperInv

LEMMA UnansweredOK ==
  RefreshOK(Paper!Unanswered)
  <1>1. Paper!Unanswered \in Refreshes /\ DOMAIN Paper!Unanswered = Paper!Parts
    BY DEF Paper!Unanswered, Paper!Parts, Refreshes, Replies
  <1>2. \A part \in Paper!Parts : ReplyOK(part, Paper!Unanswered[part])
    BY DEF Paper!Unanswered, ReplyOK, Replies
  <1>3. QED
    BY <1>1, <1>2 DEF RefreshOK

LEMMA BeginKeeps ==
  ASSUME PaperInv, Paper!Begin(refreshes)
  PROVE  /\ refreshes' \in Seq(Refreshes)
         /\ \A r \in Members(refreshes') : r \in Members(refreshes) \/ RefreshOK(r)
  <1>1. Paper!Unanswered \in Refreshes /\ RefreshOK(Paper!Unanswered)
    BY UnansweredOK DEF RefreshOK
  <1>2. refreshes \in Seq(Refreshes) /\ refreshes' = Append(refreshes, Paper!Unanswered)
    BY DEF PaperInv, Paper!Begin
  <1>3. QED
    BY <1>1, <1>2, Begun

LEMMA SendsKeep ==
  ASSUME PaperInv, Paper!PollStrategy \/ Paper!Press \/ Paper!Elsewhere
  PROVE  PaperInv'
  <1>1. UNCHANGED <<site, ledger, face>>
    BY DEF Paper!PollStrategy, Paper!Press, Paper!Elsewhere
  <1>2. strategy' \in Paper!Records
    BY DEF PaperInv, Paper!PollStrategy, Paper!Press, Paper!Elsewhere, Paper!Records
  <1>3. /\ refreshes' \in Seq(Refreshes)
        /\ \A r \in Members(refreshes') : r \in Members(refreshes) \/ RefreshOK(r)
    <2>1. CASE Paper!PollStrategy
      BY <2>1, BeginKeeps DEF Paper!PollStrategy
    <2>2. CASE Paper!Press \/ Paper!Elsewhere
      BY <2>2 DEF PaperInv, Paper!Press, Paper!Elsewhere
    <2>3. QED
      BY <2>1, <2>2
  <1>4. actions' \in Seq(Paper!Records)
    <2>1. actions \in Seq(Paper!Records)
      BY DEF PaperInv
    <2>2. CASE Paper!Press
      <3>1. \E x \in Paper!Records : actions' = Append(actions, x)
        <4>1. "active" \in Paper!Records /\ "paused" \in Paper!Records /\ "deleted" \in Paper!Records
          BY DEF Paper!Records
        <4>2. QED
          BY <2>2, <4>1 DEF Paper!Press
      <3>2. QED
        BY <2>1, <3>1, AppendProperties
    <2>3. CASE Paper!PollStrategy \/ Paper!Elsewhere
      BY <2>1, <2>3 DEF Paper!PollStrategy, Paper!Elsewhere
    <2>4. QED
      BY <2>2, <2>3
  <1>5. QED
    BY <1>1, <1>2, <1>3, <1>4, SameLedger

LEMMA ActedKeeps ==
  ASSUME PaperInv, NEW i, Paper!Acted(i)
  PROVE  PaperInv'
  <1>1. actions \in Seq(Paper!Records) /\ i \in 1 .. Len(actions)
    BY LenProperties DEF PaperInv, Paper!Acted
  <1>2. actions' \in Seq(Paper!Records) /\ strategy' \in Paper!Records
    <2>1. actions' = Live!RemoveAt(actions, i)
      BY DEF Paper!Acted, Paper!RemoveAt, Live!RemoveAt
    <2>2. actions[i] \in Paper!Records
      BY <1>1, ElementOfSeq
    <2>3. QED
      BY <1>1, <2>1, <2>2, RemovedAt DEF PaperInv, Paper!Acted
  <1>3. /\ refreshes' \in Seq(Refreshes)
        /\ \A r \in Members(refreshes') : r \in Members(refreshes) \/ RefreshOK(r)
    <2>1. CASE Paper!Begin(refreshes)
      BY <2>1, BeginKeeps
    <2>2. CASE refreshes' = refreshes
      BY <2>2 DEF PaperInv
    <2>3. QED
      BY <2>1, <2>2 DEF Paper!Acted
  <1>4. UNCHANGED <<site, ledger, face>>
    BY DEF Paper!Acted
  <1>5. QED
    BY <1>2, <1>3, <1>4, SameLedger

(* What the API serves now is of the past.                                 *)
LEMMA ServedNow ==
  ASSUME PaperInv, NEW part \in {"record", "positions", "equity"}
  PROVE  ReplyOK(part, Paper!Served(part)) /\ ReplyOK(part, Paper!Failure)
  <1>1. ledger \in Seq(Deals) /\ Numbered(ledger) /\ strategy \in Paper!Records
    BY DEF PaperInv
  <1>2. ReplyOK(part, Paper!Failure)
    BY DEF ReplyOK, Paper!Failure, Replies
  <1>3. \A x : OfThePast(part, x) => ReplyOK(part, <<x>>)
    <2> SUFFICES ASSUME NEW x, OfThePast(part, x)
                 PROVE  ReplyOK(part, <<x>>)
      OBVIOUS
    <2>1. x \in Contents
      BY DEF OfThePast, ListOf, CurveOf, Climbs, Contents
    <2>2. <<x>> \in Replies /\ <<x>>[1] = x
      BY <2>1 DEF Replies
    <2>3. QED
      BY <2>2 DEF ReplyOK
  <1>4. CASE part = "record"
    <2>1. OfThePast(part, strategy)
      BY <1>1, <1>4 DEF OfThePast
    <2>2. Paper!Served(part) = Paper!Failure \/ Paper!Served(part) = <<strategy>>
      BY <1>4 DEF Paper!Served
    <2>3. QED
      BY <1>2, <1>3, <2>1, <2>2
  <1>5. CASE part = "positions"
    <2>1. OfThePast(part, <<>>) /\ OfThePast(part, Paper!Positions(ledger))
      BY <1>1, <1>5, NothingYet, ListedNow DEF OfThePast
    <2>2. Paper!Served(part) = <<<<>>>> \/ Paper!Served(part) = <<Paper!Positions(ledger)>>
      BY <1>5 DEF Paper!Served
    <2>3. QED
      BY <1>2, <1>3, <2>1, <2>2
  <1>6. CASE part = "equity"
    <2>1. OfThePast(part, <<>>) /\ OfThePast(part, Paper!Equity(ledger))
      BY <1>1, <1>6, NothingYet, CurveNow DEF OfThePast
    <2>2. Paper!Served(part) = <<<<>>>> \/ Paper!Served(part) = <<Paper!Equity(ledger)>>
      BY <1>6 DEF Paper!Served
    <2>3. QED
      BY <1>2, <1>3, <2>1, <2>2
  <1>7. QED
    BY <1>4, <1>5, <1>6

LEMMA AnswerPartKeeps ==
  ASSUME PaperInv, NEW i, Paper!AnswerPart(i)
  PROVE  PaperInv'
  <1>1. /\ refreshes \in Seq(Refreshes) /\ i \in DOMAIN refreshes
        /\ UNCHANGED <<site, strategy, ledger, face, actions>>
    BY DEF PaperInv, Paper!AnswerPart
  <1>2. RefreshOK(refreshes[i])
    BY <1>1 DEF PaperInv, Members
  <1>3. PICK part \in DOMAIN refreshes[i] :
           \/ refreshes' = [refreshes EXCEPT ![i][part] = Paper!Served(part)]
           \/ refreshes' = [refreshes EXCEPT ![i][part] = Paper!Failure]
    BY DEF Paper!AnswerPart
  <1>4. part \in {"record", "positions", "equity"}
    BY <1>2 DEF RefreshOK, Paper!Parts
  <1>5. PICK a : ReplyOK(part, a) /\ refreshes' = [refreshes EXCEPT ![i][part] = a]
    BY <1>3, <1>4, ServedNow
  <1> DEFINE r == [refreshes[i] EXCEPT ![part] = a]
  <1>6. refreshes' = [refreshes EXCEPT ![i] = r]
    BY <1>5
  <1>7. DOMAIN r = DOMAIN refreshes[i] /\ \A p \in DOMAIN r : r[p] = IF p = part THEN a ELSE refreshes[i][p]
    BY <1>2 DEF RefreshOK, Refreshes
  <1>8. r \in Refreshes
    <2>1. refreshes[i] \in Refreshes /\ a \in Replies
      BY <1>2, <1>5 DEF RefreshOK, ReplyOK
    <2> HIDE DEF r
    <2>2. QED
      BY <2>1 DEF Refreshes, r
  <1> HIDE DEF r
  <1>9. RefreshOK(r)
    BY <1>2, <1>5, <1>7, <1>8 DEF RefreshOK
  <1>10. /\ refreshes' \in Seq(Refreshes)
         /\ \A q \in Members(refreshes') : q = r \/ q \in Members(refreshes)
    BY <1>1, <1>6, <1>8, Put
  <1>11. QED
    <2>1. strategy' \in Paper!Records /\ actions' \in Seq(Paper!Records)
      BY <1>1 DEF PaperInv
    <2>2. QED
      BY <1>1, <1>9, <1>10, <2>1, SameLedger


LEMMA ApplyKeeps ==
  ASSUME PaperInv, NEW i, Paper!Apply(i)
  PROVE  PaperInv'
  <1> DEFINE r == refreshes[i]
  <1>1. /\ refreshes \in Seq(Refreshes) /\ i \in DOMAIN refreshes
        /\ UNCHANGED <<site, strategy, ledger, actions>>
    BY DEF PaperInv, Paper!Apply
  <1>2. RefreshOK(r)
    BY <1>1 DEF PaperInv, Members
  <1>3. \A part \in DOMAIN r : r[part] # Paper!Failure => OfThePast(part, r[part][1])
    BY <1>2 DEF RefreshOK, ReplyOK, Paper!Apply, Paper!Complete, Paper!Failure
  <1>4. strategy' \in Paper!Records /\ actions' \in Seq(Paper!Records)
    BY <1>1 DEF PaperInv
  <1>5. FaceOK
    BY DEF PaperInv
  <1>6. refreshes' = Paper!RemoveAt(refreshes, i) /\ DOMAIN r = Paper!Parts /\ "record" \in DOMAIN r
    BY <1>2 DEF Paper!Apply, RefreshOK, Paper!Parts
  <1>7. ASSUME face' \in Faces, face'.positions = face.positions, face'.equity = face.equity
        PROVE  FaceOK'
    BY <1>1, <1>5, <1>7 DEF FaceOK
  <1>8. ASSUME face' = [face EXCEPT !.error = TRUE]
        PROVE  FaceOK'
    <2>1. face' \in Faces /\ face'.positions = face.positions /\ face'.equity = face.equity
      BY <1>5, <1>8 DEF FaceOK, Faces
    <2>2. QED
      BY <1>7, <2>1
  <1>9. ASSUME r.record # Paper!Failure,
               face' = [face EXCEPT !.record = r.record[1], !.error = FALSE]
        PROVE  FaceOK'
    <2>1. r.record[1] \in Paper!Records
      BY <1>3, <1>6, <1>9 DEF OfThePast
    <2>2. face' \in Faces /\ face'.positions = face.positions /\ face'.equity = face.equity
      BY <1>5, <1>9, <2>1 DEF FaceOK, Faces
    <2>3. QED
      BY <1>7, <2>2
  <1> DEFINE ps == Paper!Taken(r.positions, face.positions)
             curve == Paper!Taken(r.equity, face.equity)
  <1>10. ASSUME r.record # Paper!Failure, site = "strategy",
                face' = [face EXCEPT !.record = r.record[1], !.positions = ps, !.equity = curve,
                                     !.error = FALSE]
         PROVE  FaceOK'
    <2>1. /\ r.record[1] \in Paper!Records
          /\ "positions" \in DOMAIN r /\ "equity" \in DOMAIN r
      BY <1>3, <1>6, <1>10 DEF OfThePast, Paper!Parts
    <2>2. ListOf(ps, ledger)
      BY <1>3, <1>5, <2>1 DEF Paper!Taken, OfThePast, FaceOK
    <2>3. curve # Null => CurveOf(curve, ledger)
      BY <1>3, <1>5, <2>1 DEF Paper!Taken, OfThePast, FaceOK
    <2>4. ps \in Seq(Deals) /\ curve \in Seq(Int) \cup {Null}
      BY <2>2, <2>3 DEF ListOf, CurveOf, Climbs
    <2> HIDE DEF ps, curve, r
    <2>5. face' \in Faces /\ face'.positions = ps /\ face'.equity = curve
      BY <1>5, <1>10, <2>1, <2>4 DEF FaceOK, Faces
    <2>6. QED
      BY <1>1, <2>2, <2>3, <2>5 DEF FaceOK
  <1>11. FaceOK'
    BY <1>8, <1>9, <1>10 DEF Paper!Apply
  <1>12. QED
    BY <1>1, <1>4, <1>6, <1>11, Dropped, SameLedger

LEMMA PaperStarts ==
  ASSUME Paper!Init
  PROVE  PaperInv
  <1>1. ledger = <<>> /\ ledger \in Seq(Deals) /\ Numbered(ledger) /\ Len(ledger) <= MaxPositions
    <2>1. ledger = <<>> /\ <<>> \in Seq(Deals) /\ Len(<<>>) = 0
      BY EmptySeq DEF Paper!Init
    <2>2. Numbered(<<>>)
      BY <2>1, NothingYet
    <2>3. QED
      BY <2>1, <2>2, PaperConstants
  <1>2. strategy \in Paper!Records
    BY DEF Paper!Init, Paper!Records
  <1>3. actions \in Seq(Paper!Records)
    BY EmptySeq DEF Paper!Init
  <1>4. refreshes \in Seq(Refreshes) /\ \A r \in Members(refreshes) : RefreshOK(r)
    <2>1. refreshes = <<Paper!Unanswered>> /\ Paper!Unanswered \in Refreshes
      BY UnansweredOK DEF Paper!Init, RefreshOK
    <2>2. DOMAIN refreshes = {1} /\ refreshes[1] = Paper!Unanswered
      BY <2>1
    <2>3. refreshes \in Seq(Refreshes)
      BY <2>1
    <2>4. QED
      BY <2>2, <2>3, UnansweredOK DEF Members
  <1>5. FaceOK
    <2>1. face \in Faces /\ face.positions = <<>> /\ face.equity = Null
      BY EmptySeq DEF Paper!Init, Faces
    <2>2. QED
      BY <1>1, <2>1, NothingYet DEF FaceOK
  <1>6. QED
    BY <1>1, <1>2, <1>3, <1>4, <1>5 DEF PaperInv

LEMMA PaperStutters ==
  ASSUME PaperInv, UNCHANGED paperVars
  PROVE  PaperInv'
  <1>1. UNCHANGED <<site, strategy, ledger, face, refreshes, actions>>
    BY DEF paperVars
  <1>2. QED
    BY <1>1, SameLedger DEF PaperInv

LEMMA PagesInvariant == Spec => []PaperInv
  <1>1. Init => PaperInv
    BY PaperStarts DEF Init
  <1>2. PaperInv /\ [Next]_vars => PaperInv'
    <2>1. SUFFICES ASSUME PaperInv, [Next]_vars
                   PROVE  PaperInv'
      OBVIOUS
    <2>2. CASE UNCHANGED paperVars
      BY <2>1, <2>2, PaperStutters
    <2>3. CASE Paper!Next
      <3>1. CASE Paper!Trade
        BY <2>1, <3>1, TradeKeeps
      <3>2. CASE Paper!PollStrategy \/ Paper!Press \/ Paper!Elsewhere
        BY <2>1, <3>2, SendsKeep
      <3>3. ASSUME NEW i, Paper!Acted(i)
            PROVE  PaperInv'
        BY <2>1, <3>3, ActedKeeps
      <3>4. ASSUME NEW i, Paper!AnswerPart(i)
            PROVE  PaperInv'
        BY <2>1, <3>4, AnswerPartKeeps
      <3>5. ASSUME NEW i, Paper!Apply(i)
            PROVE  PaperInv'
        BY <2>1, <3>5, ApplyKeeps
      <3>6. QED
        BY <2>3, <3>1, <3>2, <3>3, <3>4, <3>5 DEF Paper!Next
    <2>4. Paper!Next \/ UNCHANGED paperVars
      BY <2>1 DEF Next, InWeb, InBackend, vars, webVars
    <2>5. QED
      BY <2>2, <2>3, <2>4
  <1>3. QED
    BY <1>1, <1>2, PTL DEF Spec

(* The figures of the strategy page agree, whichever refreshes its         *)
(* positions and its equity curve came with, unless the list was cut: each *)
(* is of the ledger's past, and where as many positions closed in both,    *)
(* the same ones did.  For any                                             *)
(* positions, nets and order of closing, any number of refreshes under     *)
(* way, in whatever order they come, and any number of failures.           *)
THEOREM FiguresOfAPageAgree == Spec => []PageAgreesWithItself
  <1>1. PaperInv => PageAgreesWithItself
    <2>1. SUFFICES ASSUME PaperInv
                   PROVE  Paper!PageAgreesWithItself
      BY DEF PageAgreesWithItself
    <2> DEFINE Alike == /\ face.equity # Null
                        /\ Len(face.equity) = Paper!Cardinality(Paper!ClosedAt(face.positions))
                        /\ Paper!Whole(face.positions)
    <2>2. CASE Alike
      <3>1. Len(face.equity) = Cardinality(Paper!ClosedAt(face.positions))
        BY <2>2, PageOperators
      <3>2. Fits(face.equity, face.positions)
        BY <2>1, <2>2, <3>1, PastMeets DEF PaperInv, FaceOK, ListOf, Paper!Whole
      <3>3. QED
        BY <2>2, <3>2, FiguresAgree
    <2>3. CASE ~Alike
      BY <2>3 DEF Paper!PageAgreesWithItself
    <2>4. QED
      BY <2>2, <2>3
  <1>2. QED
    BY <1>1, PagesInvariant, PTL

(* ---------------------- the types of the paper pages ------------------- *)

(* The requests of a refresh that are under way.                           *)
Loads(rs) == [i \in DOMAIN rs |-> Cardinality(DOMAIN rs[i])]

LEMMA LoadOfOne ==
  ASSUME NEW r \in Refreshes
  PROVE  Cardinality(DOMAIN r) \in 1 .. 3
  <1>1. Cardinality({"record"}) = 1 /\ IsFiniteSet({"record"})
    BY FS_Singleton
  <1>2. Cardinality({"record"} \cup {"positions"}) = 2 /\ IsFiniteSet({"record"} \cup {"positions"})
    BY <1>1, FS_AddElement
  <1>3. Cardinality(({"record"} \cup {"positions"}) \cup {"equity"}) = 3
    BY <1>2, FS_AddElement
  <1>4. {"record", "positions", "equity"} = ({"record"} \cup {"positions"}) \cup {"equity"}
    OBVIOUS
  <1>5. DOMAIN r \in {{"record"}, {"record", "positions", "equity"}}
    BY DEF Refreshes
  <1>6. QED
    BY <1>1, <1>3, <1>4, <1>5

LEMMA WireIsSum ==
  ASSUME NEW rs \in Seq(Refreshes)
  PROVE  /\ Paper!Wire(rs) = SumOver(Loads(rs), 1 .. Len(rs))
         /\ Len(rs) \in Nat /\ DOMAIN rs = 1 .. Len(rs) /\ IsFiniteSet(1 .. Len(rs))
         /\ \A i \in 1 .. Len(rs) : rs[i] \in Refreshes /\ Loads(rs)[i] = Cardinality(DOMAIN rs[i])
                                    /\ Loads(rs)[i] \in 1 .. 3
  <1>1. Len(rs) \in Nat /\ DOMAIN rs = 1 .. Len(rs)
    BY LenProperties
  <1>2. \A i \in 1 .. Len(rs) : rs[i] \in Refreshes
    BY ElementOfSeq
  <1>3. \A i \in 1 .. Len(rs) : Loads(rs)[i] = Cardinality(DOMAIN rs[i]) /\ Loads(rs)[i] \in 1 .. 3
    BY <1>1, <1>2, LoadOfOne DEF Loads
  <1>4. Paper!Wire(rs) = SumFunctionOnSet([i \in DOMAIN rs |-> Cardinality(DOMAIN rs[i])], DOMAIN rs)
    BY PageOperators DEF Paper!Wire
  <1>5. [i \in DOMAIN rs |-> Cardinality(DOMAIN rs[i])] = [i \in 1 .. Len(rs) |-> Loads(rs)[i]]
    BY <1>1 DEF Loads
  <1>6. SumOver(Loads(rs), 1 .. Len(rs))
          = SumFunctionOnSet([i \in 1 .. Len(rs) |-> Loads(rs)[i]], 1 .. Len(rs))
    BY DEF SumOver
  <1>7. Paper!Wire(rs) = SumOver(Loads(rs), 1 .. Len(rs))
    BY <1>1, <1>4, <1>5, <1>6
  <1>8. IsFiniteSet(1 .. Len(rs))
    BY <1>1, FS_Interval
  <1>9. QED
    BY <1>1, <1>2, <1>3, <1>7, <1>8

(* A refresh that begins, or is dropped.                                   *)
LEMMA WireAppends ==
  ASSUME NEW rs \in Seq(Refreshes), NEW r \in Refreshes
  PROVE  Paper!Wire(Append(rs, r)) = Paper!Wire(rs) + Cardinality(DOMAIN r)
  <1> DEFINE n == Len(rs)  a == Append(rs, r)
  <1>1. a \in Seq(Refreshes) /\ Len(a) = n + 1 /\ a[n + 1] = r /\ \A i \in 1 .. n : a[i] = rs[i]
    BY AppendProperties
  <1>2. /\ n \in Nat /\ Paper!Wire(rs) = SumOver(Loads(rs), 1 .. n)
        /\ \A i \in 1 .. n : Loads(rs)[i] = Cardinality(DOMAIN rs[i])
    BY WireIsSum
  <1> HIDE DEF n, a
  <1>3. /\ Paper!Wire(a) = SumOver(Loads(a), 1 .. (n + 1))
        /\ \A i \in 1 .. (n + 1) : Loads(a)[i] = Cardinality(DOMAIN a[i]) /\ Loads(a)[i] \in 1 .. 3
    BY <1>1, WireIsSum
  <1>4. SumOver(Loads(a), 1 .. (n + 1)) = SumOver(Loads(a), 1 .. n) + Loads(a)[n + 1]
    BY <1>2, <1>3, SumUpTo
  <1>5. SumOver(Loads(a), 1 .. n) = SumOver(Loads(rs), 1 .. n)
    <2>1. \A i \in 1 .. n : Loads(a)[i] = Loads(rs)[i]
      BY <1>1, <1>2, <1>3
    <2>2. [i \in 1 .. n |-> Loads(a)[i]] = [i \in 1 .. n |-> Loads(rs)[i]]
      BY <2>1
    <2>3. QED
      BY <2>2 DEF SumOver
  <1>6. QED
    BY <1>1, <1>2, <1>3, <1>4, <1>5 DEF a

LEMMA WireDrops ==
  ASSUME NEW rs \in Seq(Refreshes), NEW i \in DOMAIN rs
  PROVE  Paper!Wire(Paper!RemoveAt(rs, i)) <= Paper!Wire(rs)
  <1> DEFINE n == Len(rs) - 1  t == Paper!RemoveAt(rs, i)
  <1>1. /\ Len(rs) \in Nat /\ DOMAIN rs = 1 .. Len(rs) /\ Paper!Wire(rs) = SumOver(Loads(rs), 1 .. Len(rs))
        /\ \A k \in 1 .. Len(rs) : Loads(rs)[k] = Cardinality(DOMAIN rs[k]) /\ Loads(rs)[k] \in 1 .. 3
    BY WireIsSum
  <1>2. n \in Nat /\ Len(rs) = n + 1 /\ i \in 1 .. (n + 1)
    BY <1>1
  <1>3. t = Live!RemoveAt(rs, i)
    BY DEF Paper!RemoveAt, Live!RemoveAt
  <1>4. /\ t \in Seq(Refreshes) /\ Len(t) = n
        /\ \A k \in 1 .. n : t[k] = IF k < i THEN rs[k] ELSE rs[k + 1]
    BY <1>2, <1>3, RemovedAt, Zenon
  <1> HIDE DEF n, t
  <1>5. /\ Paper!Wire(t) = SumOver(Loads(t), 1 .. n)
        /\ \A k \in 1 .. n : Loads(t)[k] = Cardinality(DOMAIN t[k])
    BY <1>4, WireIsSum
  <1>6. \A k \in 1 .. n : Loads(t)[k] = IF k < i THEN Loads(rs)[k] ELSE Loads(rs)[k + 1]
    <2> TAKE k \in 1 .. n
    <2>1. k \in 1 .. Len(rs) /\ k + 1 \in 1 .. Len(rs)
      BY <1>2
    <2>2. QED
      BY <1>1, <1>4, <1>5, <2>1
  <1>7. \A k \in 1 .. (n + 1) : Loads(rs)[k] \in Int
    BY <1>1, <1>2
  <1>8. SumOver(Loads(t), 1 .. n) = SumOver(Loads(rs), 1 .. (n + 1)) - Loads(rs)[i]
    BY <1>2, <1>6, <1>7, SumWithout
  <1>9. SumOver(Loads(rs), 1 .. (n + 1)) \in Int
    <2>1. IsFiniteSet(1 .. (n + 1))
      BY <1>2, FS_Interval
    <2>2. QED
      BY <1>7, <2>1, SumOverInt DEF Integral
  <1>10. QED
    BY <1>1, <1>2, <1>5, <1>8, <1>9 DEF t

LEMMA WireIsNat ==
  ASSUME NEW rs \in Seq(Refreshes)
  PROVE  Paper!Wire(rs) \in Nat
  <1>1. /\ Paper!Wire(rs) = SumOver(Loads(rs), 1 .. Len(rs)) /\ IsFiniteSet(1 .. Len(rs))
        /\ \A k \in 1 .. Len(rs) : Loads(rs)[k] \in Nat /\ Loads(rs)[k] <= Loads(rs)[k]
    BY WireIsSum
  <1>2. QED
    BY <1>1, SmallerSum

(* Every position closes with the net it was given; the wire and the       *)
(* buttons keep to their bounds.                                           *)
PaperBounds ==
    /\ site \in {"list", "strategy"}
    /\ \A i \in DOMAIN ledger : ledger[i].net = Nets[i]
    /\ Paper!Wire(refreshes) <= MaxWire
    /\ Len(actions) <= presses /\ presses \in 0 .. MaxPresses /\ missed \in 0 .. MaxMissed

LEMMA PaperLimits ==
  /\ MaxWire \in Nat /\ MaxWire >= 3 /\ MaxPresses \in Nat /\ MaxMissed \in Nat
  BY PlatformAssumption DEF Paper!PaperPagesAssumption

LEMMA MissBounded ==
  ASSUME PaperBounds, (Paper!Miss \/ missed' = missed)
  PROVE  missed' \in 0 .. MaxMissed
  BY PaperLimits DEF PaperBounds, Paper!Miss

(* A refresh begins only where there is room for its requests.             *)
LEMMA BeginBounded ==
  ASSUME PaperInv, Paper!Begin(refreshes)
  PROVE  Paper!Wire(refreshes') <= MaxWire
  <1>1. refreshes \in Seq(Refreshes) /\ Paper!Unanswered \in Refreshes
    BY UnansweredOK DEF PaperInv, RefreshOK
  <1>2. /\ refreshes' = Append(refreshes, Paper!Unanswered)
        /\ Paper!Wire(refreshes) + Cardinality(Paper!Parts) <= MaxWire
    BY PageOperators DEF Paper!Begin
  <1>3. DOMAIN Paper!Unanswered = Paper!Parts
    BY DEF Paper!Unanswered
  <1>4. QED
    BY <1>1, <1>2, <1>3, WireAppends

LEMMA TradeBounded ==
  ASSUME PaperInv, PaperBounds, Paper!Trade
  PROVE  PaperBounds'
  <1>1. /\ ledger \in Seq(Deals) /\ Len(ledger) \in Nat /\ DOMAIN ledger = 1 .. Len(ledger)
        /\ \A i \in 1 .. Len(ledger) : ledger[i] \in Deals
    BY LenProperties, Rows DEF PaperInv
  <1>2. \A i \in DOMAIN ledger' : ledger'[i].net = Nets[i]
    <2>1. CASE ledger' = Append(ledger, [net |-> Nets[Len(ledger) + 1], rank |-> 0])
      <3> DEFINE n == Len(ledger)  d == [net |-> Nets[n + 1], rank |-> 0]
      <3>1. ledger' = Append(ledger, d) /\ d.net = Nets[n + 1] /\ n \in Nat
        BY <1>1, <2>1
      <3>2. DOMAIN ledger = 1 .. n /\ \A i \in 1 .. n : ledger[i].net = Nets[i]
        BY <1>1 DEF PaperBounds
      <3>3. /\ DOMAIN ledger' = 1 .. (n + 1)
            /\ \A i \in 1 .. (n + 1) : ledger'[i] = IF i = n + 1 THEN d ELSE ledger[i]
        BY <1>1, <3>1
      <3> HIDE DEF n, d
      <3>4. QED
        BY <3>1, <3>2, <3>3
    <2>2. ASSUME NEW x \in DOMAIN ledger, NEW rank, ledger' = [ledger EXCEPT ![x].rank = rank]
          PROVE  \A i \in DOMAIN ledger' : ledger'[i].net = Nets[i]
      <3>1. DOMAIN ledger' = DOMAIN ledger
        BY <2>2
      <3>2. ASSUME NEW i \in DOMAIN ledger
            PROVE  ledger'[i].net = ledger[i].net
        BY <1>1, <2>2 DEF Deals
      <3>3. QED
        BY <3>1, <3>2 DEF PaperBounds
    <2>3. QED
      BY <2>1, <2>2 DEF Paper!Trade
  <1>3. UNCHANGED <<site, refreshes, actions, presses, missed>>
    BY DEF Paper!Trade
  <1>4. QED
    BY <1>2, <1>3 DEF PaperBounds

LEMMA SendsBounded ==
  ASSUME PaperInv, PaperBounds, Paper!PollStrategy \/ Paper!Press \/ Paper!Elsewhere
  PROVE  PaperBounds'
  <1>1. actions \in Seq(Paper!Records) /\ Len(actions) \in Nat
        /\ presses \in Nat /\ presses <= MaxPresses /\ Len(actions) <= presses
    BY LenProperties, PaperLimits DEF PaperInv, PaperBounds
  <1>2. UNCHANGED <<site, ledger, missed>>
    BY DEF Paper!PollStrategy, Paper!Press, Paper!Elsewhere
  <1>3. Paper!Wire(refreshes') <= MaxWire
    <2>1. CASE Paper!PollStrategy
      BY <2>1, BeginBounded DEF Paper!PollStrategy
    <2>2. CASE Paper!Press \/ Paper!Elsewhere
      <3>1. refreshes' = refreshes
        BY <2>2 DEF Paper!Press, Paper!Elsewhere
      <3>2. QED
        BY <3>1 DEF PaperBounds
    <2>3. QED
      BY <2>1, <2>2
  <1>4. Len(actions') <= presses' /\ presses' \in 0 .. MaxPresses
    <2>1. CASE Paper!PollStrategy
      <3>1. actions' = actions /\ presses' = presses
        BY <2>1 DEF Paper!PollStrategy
      <3>2. QED
        BY <1>1, <3>1, PaperLimits
    <2>2. CASE Paper!Press
      <3>1. presses < MaxPresses /\ presses' = presses + 1 /\ \E x : actions' = Append(actions, x)
        BY <2>2 DEF Paper!Press
      <3>2. Len(actions') = Len(actions) + 1
        BY <1>1, <3>1
      <3>3. QED
        BY <1>1, <3>1, <3>2, PaperLimits
    <2>3. CASE Paper!Elsewhere
      <3>1. actions' = actions /\ presses < MaxPresses /\ presses' = presses + 1
        BY <2>3 DEF Paper!Elsewhere
      <3>2. QED
        BY <1>1, <3>1, PaperLimits
    <2>4. QED
      BY <2>1, <2>2, <2>3
  <1>5. QED
    BY <1>2, <1>3, <1>4 DEF PaperBounds

LEMMA ActedBounded ==
  ASSUME PaperInv, PaperBounds, NEW i, Paper!Acted(i)
  PROVE  PaperBounds'
  <1>1. /\ UNCHANGED <<site, ledger, presses>> /\ actions' = Live!RemoveAt(actions, i)
        /\ i \in DOMAIN actions /\ (Paper!Miss \/ missed' = missed)
    BY DEF Paper!Acted, Paper!RemoveAt, Live!RemoveAt
  <1>2. Paper!Wire(refreshes') <= MaxWire
    <2>1. Paper!Begin(refreshes) \/ refreshes' = refreshes
      BY DEF Paper!Acted
    <2>2. QED
      BY <2>1, BeginBounded DEF PaperBounds
  <1>3. Len(actions') <= presses'
    <2>1. actions \in Seq(Paper!Records) /\ i \in 1 .. Len(actions) /\ Len(actions) \in Nat
      BY <1>1, LenProperties DEF PaperInv
    <2>2. Len(actions') = Len(actions) - 1
      BY <1>1, <2>1, RemovedAt
    <2>3. QED
      BY <1>1, <2>1, <2>2, PaperLimits DEF PaperBounds
  <1>4. missed' \in 0 .. MaxMissed
    BY <1>1, MissBounded
  <1>5. QED
    BY <1>1, <1>2, <1>3, <1>4 DEF PaperBounds

LEMMA AnswerPartBounded ==
  ASSUME PaperInv, PaperBounds, NEW i, Paper!AnswerPart(i)
  PROVE  PaperBounds'
  <1>1. /\ refreshes \in Seq(Refreshes) /\ i \in DOMAIN refreshes
        /\ UNCHANGED <<site, ledger, actions, presses>> /\ (Paper!Miss \/ missed' = missed)
    BY DEF PaperInv, Paper!AnswerPart
  <1>2. PICK part \in DOMAIN refreshes[i] : \E a : refreshes' = [refreshes EXCEPT ![i][part] = a]
    BY DEF Paper!AnswerPart
  <1>3. /\ DOMAIN refreshes' = DOMAIN refreshes
        /\ \A k \in DOMAIN refreshes : DOMAIN refreshes'[k] = DOMAIN refreshes[k]
    BY <1>1, <1>2
  <1>4. Paper!Wire(refreshes') = Paper!Wire(refreshes)
    <2>1. [k \in DOMAIN refreshes' |-> Paper!Cardinality(DOMAIN refreshes'[k])]
            = [k \in DOMAIN refreshes |-> Paper!Cardinality(DOMAIN refreshes[k])]
      BY <1>3
    <2>2. QED
      BY <1>3, <2>1 DEF Paper!Wire
  <1>5. missed' \in 0 .. MaxMissed
    BY <1>1, MissBounded
  <1>6. QED
    BY <1>1, <1>4, <1>5 DEF PaperBounds

LEMMA ApplyBounded ==
  ASSUME PaperInv, PaperBounds, NEW i, Paper!Apply(i)
  PROVE  PaperBounds'
  <1>1. /\ refreshes \in Seq(Refreshes) /\ i \in DOMAIN refreshes
        /\ UNCHANGED <<site, ledger, actions, presses, missed>>
        /\ refreshes' = Paper!RemoveAt(refreshes, i)
        /\ Paper!Wire(refreshes) \in Nat /\ Paper!Wire(refreshes) <= MaxWire
    BY WireIsNat DEF PaperInv, PaperBounds, Paper!Apply
  <1>2. Paper!Wire(refreshes') <= Paper!Wire(refreshes) /\ Paper!Wire(refreshes') \in Nat
    BY <1>1, WireDrops, Dropped, WireIsNat
  <1>3. Paper!Wire(refreshes') <= MaxWire
    BY <1>1, <1>2, PaperLimits
  <1>4. QED
    BY <1>1, <1>3 DEF PaperBounds

LEMMA PaperStartsBounded ==
  ASSUME Paper!Init
  PROVE  PaperBounds
  <1> DEFINE u == Paper!Unanswered
  <1>1. u \in Refreshes /\ refreshes = <<u>> /\ <<>> \in Seq(Refreshes)
    BY UnansweredOK, EmptySeq DEF Paper!Init, RefreshOK
  <1> HIDE DEF u
  <1>2. refreshes = Append(<<>>, u)
    BY <1>1
  <1>3. Paper!Wire(<<>>) = 0
    <2>1. Paper!Wire(<<>>) = SumOver(Loads(<<>>), 1 .. 0)
      BY <1>1, WireIsSum
    <2>2. 1 .. 0 = {}
      OBVIOUS
    <2>3. QED
      BY <2>1, <2>2, SumOverNone
  <1>4. Paper!Wire(refreshes) <= MaxWire
    <2>1. Paper!Wire(refreshes) = 0 + Cardinality(DOMAIN u) /\ Cardinality(DOMAIN u) \in 1 .. 3
      BY <1>1, <1>2, <1>3, WireAppends, LoadOfOne
    <2>2. QED
      BY <2>1, PaperLimits
  <1>5. site \in {"list", "strategy"} /\ ledger = <<>> /\ actions = <<>> /\ presses = 0 /\ missed = 0
    BY DEF Paper!Init
  <1>6. QED
    BY <1>4, <1>5, PaperLimits DEF PaperBounds

LEMMA PaperTypes == Spec => []Paper!TypeOK
  <1>1. Init => PaperBounds
    BY PaperStartsBounded DEF Init
  <1>2. PaperInv /\ PaperBounds /\ [Next]_vars => PaperBounds'
    <2>1. SUFFICES ASSUME PaperInv, PaperBounds, [Next]_vars
                   PROVE  PaperBounds'
      OBVIOUS
    <2>2. CASE UNCHANGED paperVars
      BY <2>1, <2>2 DEF paperVars, PaperBounds
    <2>3. CASE Paper!Next
      BY <2>1, <2>3, TradeBounded, SendsBounded, ActedBounded, AnswerPartBounded, ApplyBounded
      DEF Paper!Next
    <2>4. Paper!Next \/ UNCHANGED paperVars
      BY <2>1 DEF Next, InWeb, InBackend, vars, webVars
    <2>5. QED
      BY <2>2, <2>3, <2>4
  <1>3. PaperInv /\ PaperBounds => Paper!TypeOK
    <2>1. SUFFICES ASSUME PaperInv, PaperBounds
                   PROVE  Paper!TypeOK
      OBVIOUS
    <2>2. /\ ledger \in Seq(Deals) /\ Numbered(ledger) /\ Len(ledger) <= MaxPositions
          /\ face \in Faces /\ strategy \in Paper!Records
      BY <2>1 DEF PaperInv, FaceOK
    <2>3. ASSUME NEW i \in DOMAIN ledger
          PROVE  ledger[i].rank \in 0 .. MaxPositions
      <3>1. /\ i \in 1 .. Len(ledger) /\ ledger[i].rank \in Nat /\ Len(ledger) \in Nat
            /\ Paper!ClosedAt(ledger) = {j \in 1 .. Len(ledger) : ledger[j].rank # 0}
        BY <2>2, <2>3, Rows
      <3>2. CASE ledger[i].rank = 0
        BY <3>2, PaperConstants
      <3>3. CASE ledger[i].rank # 0
        <4>1. ledger[i].rank <= Cardinality(Paper!ClosedAt(ledger))
          BY <2>2, <3>1, <3>3 DEF Numbered
        <4>2. /\ Cardinality(Paper!ClosedAt(ledger)) <= Cardinality(1 .. Len(ledger))
              /\ Cardinality(1 .. Len(ledger)) = Len(ledger)
          <5>1. IsFiniteSet(1 .. Len(ledger)) /\ Cardinality(1 .. Len(ledger)) = Len(ledger)
            <6> DEFINE n == Len(ledger)
            <6>1. 1 \in Int /\ n \in Int /\ n > 0
              BY <3>1
            <6> HIDE DEF n
            <6>2. IsFiniteSet(1 .. n) /\ Cardinality(1 .. n) = IF 1 > n THEN 0 ELSE n - 1 + 1
              BY <6>1, FS_Interval, Zenon
            <6>3. QED
              BY <6>1, <6>2 DEF n
          <5>2. QED
            BY <2>2, <5>1, ClosedRows, FS_Subset
        <4>3. Cardinality(Paper!ClosedAt(ledger)) \in Nat
          BY <2>2, ClosedRows
        <4>4. QED
          BY <2>2, <3>1, <4>1, <4>2, <4>3, PaperConstants
      <3>4. QED
        BY <3>2, <3>3
    <2>4. face.record \in Paper!Records \cup {Null} /\ face.error \in BOOLEAN
      BY <2>2 DEF Faces
    <2>5. Len(actions) <= MaxPresses
      <3>1. Len(actions) \in Nat
        BY <2>1, LenProperties DEF PaperInv
      <3>2. QED
        BY <2>1, <3>1, PaperLimits DEF PaperBounds
    <2>6. QED
      BY <2>1, <2>2, <2>3, <2>4, <2>5 DEF PaperBounds, Paper!TypeOK
  <1>4. QED
    BY <1>1, <1>2, <1>3, PagesInvariant, PTL DEF Spec

(* ------------------------------- API keys ------------------------------ *)

KeyAnswers == {Null} \cup Seq(Nat \cup Seq(BOOLEAN))
CallRecords ==
    [op : {"create", "revoke", "refresh"}, key : Nat \cup {Null}, final : BOOLEAN,
     resent : BOOLEAN, answer : KeyAnswers]

(* A created key's answer is the newest key of the table, not shown yet.   *)
CallOK(c) ==
    /\ c.op = "create" =>
          \/ c.answer \in {Null, <<>>}
          \/ c.answer = <<Len(table)>> /\ Len(table) \in 1 .. Len(table) /\ Len(table) \notin seen
    /\ c.op = "revoke" => c.key \in Nat
    /\ c.op = "refresh" =>
          \/ c.answer \in {Null, <<>>}
          \/ c.answer[1] \in Seq(BOOLEAN) /\ Len(c.answer[1]) <= Len(table)

(* A call that keeps the create button disabled: a creation, or the        *)
(* refresh that createKey waits for.                                       *)
Holds(c) == c.op = "create" \/ c.final

Answered == \E i \in DOMAIN calls : calls[i].op = "create" /\ calls[i].answer \notin {Null, <<>>}
Unserved == \E i \in DOMAIN calls : calls[i].op = "create" /\ calls[i].answer = Null

KeysShape ==
    /\ known \in BOOLEAN /\ creating \in BOOLEAN /\ swapped \in BOOLEAN
    /\ table \in Seq(BOOLEAN) /\ listed \in Seq(BOOLEAN) /\ Len(listed) <= Len(table)
    /\ seen \subseteq 1 .. Len(table) /\ fresh \in (1 .. Len(table)) \cup {Null}
    /\ calls \in Seq(CallRecords) /\ Len(calls) <= creates + revokes
    /\ creates \in 0 .. MaxCreates /\ revokes \in 0 .. MaxRevokes /\ drops \in 0 .. MaxDrops

(* One creation at a time, and no key on display meanwhile; keys are       *)
(* missing for a lost call or for the creation that was answered.          *)
KeysInv ==
    /\ KeysShape
    /\ \A i \in DOMAIN calls : CallOK(calls[i]) /\ (Holds(calls[i]) => creating)
    /\ \A i, j \in DOMAIN calls : Holds(calls[i]) /\ Holds(calls[j]) => i = j
    /\ fresh # Null => fresh = Len(table) /\ \A i \in DOMAIN calls : calls[i].op # "create"
    /\ Cardinality((1 .. Len(table)) \ seen) <= drops + (IF Answered THEN 1 ELSE 0)
    /\ Len(table) + (IF Unserved THEN 1 ELSE 0) <= 1 + creates + drops

LEMMA KeysConstants ==
  /\ MaxCreates \in Nat /\ MaxRevokes \in Nat /\ MaxDrops \in Nat
  /\ Null \notin Nat /\ Null \notin Seq(Nat)
  BY PlatformAssumption DEF Keys!KeysAssumption

LEMMA KeysCardinality ==
  \A S : Keys!Cardinality(S) = Cardinality(S)
  BY DEF Keys!Cardinality, Cardinality

LEMMA RemovedCall ==
  ASSUME NEW S, NEW s \in Seq(S), NEW i \in 1 .. Len(s)
  PROVE  /\ Keys!RemoveAt(s, i) \in Seq(S)
         /\ Len(Keys!RemoveAt(s, i)) = Len(s) - 1
         /\ \A k \in 1 .. (Len(s) - 1) :
                Keys!RemoveAt(s, i)[k] = IF k < i THEN s[k] ELSE s[k + 1]
  <1> DEFINE a == SubSeq(s, 1, i - 1)
             z == SubSeq(s, i + 1, Len(s))
  <1>1. Len(s) \in Nat /\ i \in Int /\ 1 <= i /\ i <= Len(s)
    BY LenProperties
  <1>2. /\ a \in Seq(S) /\ Len(a) = i - 1
        /\ \A k \in 1 .. (i - 1) : a[k] = s[k]
    BY <1>1, SubSeqProperties
  <1>3. /\ z \in Seq(S) /\ Len(z) = Len(s) - i
        /\ \A k \in 1 .. (Len(s) - i) : z[k] = s[i + k]
    BY <1>1, SubSeqProperties
  <1> HIDE DEF a, z
  <1>4. /\ a \o z \in Seq(S) /\ Len(a \o z) = Len(a) + Len(z)
        /\ \A k \in 1 .. Len(a) + Len(z) :
              (a \o z)[k] = IF k <= Len(a) THEN a[k] ELSE z[k - Len(a)]
    BY <1>2, <1>3, ConcatProperties
  <1>5. Keys!RemoveAt(s, i) = a \o z
    BY DEF Keys!RemoveAt, a, z
  <1>6. Len(a) + Len(z) = Len(s) - 1
    BY <1>1, <1>2, <1>3
  <1>7. ASSUME NEW k \in 1 .. (Len(s) - 1)
        PROVE  (a \o z)[k] = IF k < i THEN s[k] ELSE s[k + 1]
    <2>1. k \in Int /\ 1 <= k /\ k <= Len(s) - 1
      BY <1>1
    <2>2. (a \o z)[k] = IF k <= Len(a) THEN a[k] ELSE z[k - Len(a)]
      BY <1>4, <1>6
    <2>3. CASE k < i
      BY <1>1, <1>2, <2>1, <2>2, <2>3
    <2>4. CASE ~(k < i)
      <3>1. k - Len(a) \in 1 .. (Len(s) - i) /\ ~(k <= Len(a)) /\ i + (k - Len(a)) = k + 1
        BY <1>1, <1>2, <2>1, <2>4
      <3>2. QED
        BY <1>3, <2>2, <2>4, <3>1
    <2>5. QED
      BY <2>3, <2>4
  <1>8. QED
    BY <1>4, <1>5, <1>6, <1>7

LEMMA ServedCall ==
  ASSUME KeysShape, NEW c \in CallRecords, CallOK(c)
  PROVE  /\ Keys!Served(c).table \in Seq(BOOLEAN) /\ Keys!Served(c).answer \in KeyAnswers
         /\ c.op = "create" =>
               \/ Keys!Served(c).table = table /\ Keys!Served(c).answer = <<>>
               \/ /\ Len(Keys!Served(c).table) = Len(table) + 1
                  /\ Keys!Served(c).answer = <<Len(table) + 1>>
         /\ c.op # "create" => Len(Keys!Served(c).table) = Len(table)
         /\ c.op = "refresh" => /\ Keys!Served(c).answer[1] \in Seq(BOOLEAN)
                                /\ Len(Keys!Served(c).answer[1]) = Len(table)
  <1>1. table \in Seq(BOOLEAN) /\ Len(table) \in Nat
    BY LenProperties DEF KeysShape
  <1>2. c.op \in {"create", "revoke", "refresh"}
    BY DEF CallRecords
  <1>3. /\ Keys!Failed = <<>> /\ <<>> \in KeyAnswers /\ <<table>> \in KeyAnswers
        /\ \A k \in Nat : <<k>> \in KeyAnswers
    BY <1>1 DEF Keys!Failed, KeyAnswers
  <1>4. CASE c.op = "refresh"
    <2>1. Keys!Served(c) = [table |-> table, answer |-> <<table>>]
      BY <1>4 DEF Keys!Served
    <2>2. QED
      BY <1>1, <1>3, <1>4, <2>1
  <1>5. CASE c.op = "create"
    <2>1. Keys!Served(c) = IF known THEN [table |-> Append(table, TRUE), answer |-> <<Len(table) + 1>>]
                           ELSE [table |-> table, answer |-> <<>>]
      BY <1>3, <1>5 DEF Keys!Served
    <2>2. Append(table, TRUE) \in Seq(BOOLEAN) /\ Len(Append(table, TRUE)) = Len(table) + 1
      BY <1>1
    <2>3. CASE known
      BY <1>1, <1>3, <1>5, <2>1, <2>2, <2>3
    <2>4. CASE ~known
      BY <1>1, <1>3, <1>5, <2>1, <2>4
    <2>5. QED
      BY <2>3, <2>4
  <1>6. CASE c.op = "revoke"
    <2>1. Keys!Served(c) = IF table[c.key] THEN [table  |-> [table EXCEPT ![c.key] = FALSE],
                                                answer |-> <<c.key>>]
                           ELSE [table |-> table, answer |-> <<>>]
      BY <1>3, <1>6 DEF Keys!Served
    <2>2. c.key \in Nat
      BY <1>6 DEF CallOK
    <2>3. /\ [table EXCEPT ![c.key] = FALSE] \in Seq(BOOLEAN)
          /\ Len([table EXCEPT ![c.key] = FALSE]) = Len(table)
      <3>1. CASE c.key \in 1 .. Len(table)
        BY <1>1, <3>1, ExceptSeq
      <3>2. CASE c.key \notin 1 .. Len(table)
        <4>1. DOMAIN table = 1 .. Len(table) /\ table = [k \in 1 .. Len(table) |-> table[k]]
          BY <1>1, LenProperties
        <4>2. [table EXCEPT ![c.key] = FALSE] = table
          BY <3>2, <4>1
        <4>3. QED
          BY <1>1, <4>2
      <3>3. QED
        BY <3>1, <3>2
    <2>4. CASE table[c.key]
      BY <1>1, <1>3, <1>6, <2>1, <2>2, <2>3, <2>4
    <2>5. CASE ~table[c.key]
      BY <1>1, <1>3, <1>6, <2>1, <2>5
    <2>6. QED
      BY <2>4, <2>5
  <1>7. QED
    BY <1>2, <1>4, <1>5, <1>6

LEMMA ServeStep ==
  ASSUME KeysInv, NEW i \in DOMAIN calls, Keys!Serve(i)
  PROVE  KeysInv'
  <1> DEFINE c == calls[i]
             n == Len(table)
             s == Keys!Served(c)
  <1>1. /\ calls \in Seq(CallRecords) /\ i \in 1 .. Len(calls) /\ DOMAIN calls = 1 .. Len(calls)
        /\ c \in CallRecords /\ CallOK(c) /\ KeysShape /\ n \in Nat /\ Len(calls) \in Nat
        /\ drops \in Nat /\ creates \in Nat /\ c.answer = Null
    BY ElementOfSeq, LenProperties, KeysConstants, SMTT(30) DEF KeysInv, KeysShape, Keys!Serve
  <1>2. /\ s.table \in Seq(BOOLEAN) /\ s.answer \in KeyAnswers
        /\ c.op = "create" =>
               \/ s.table = table /\ s.answer = <<>>
               \/ Len(s.table) = n + 1 /\ s.answer = <<n + 1>>
        /\ c.op # "create" => Len(s.table) = n
        /\ c.op = "refresh" => s.answer[1] \in Seq(BOOLEAN) /\ Len(s.answer[1]) = n
    BY <1>1, ServedCall
  <1>3. /\ UNCHANGED <<known, listed, creating, fresh, seen, swapped, creates, revokes>>
        /\ \/ /\ table' = s.table /\ calls' = [calls EXCEPT ![i].answer = s.answer]
              /\ UNCHANGED drops
           \/ /\ drops < MaxDrops /\ drops' = drops + 1
              /\ table' = s.table /\ calls' = [calls EXCEPT ![i].resent = TRUE]
           \/ /\ drops < MaxDrops /\ drops' = drops + 1
              /\ table' \in {table, s.table} /\ calls' = [calls EXCEPT ![i].answer = <<>>]
    BY DEF Keys!Serve, Keys!Lose, Keys!Failed
  <1> HIDE DEF s
  <1>4. table' \in Seq(BOOLEAN) /\ Len(table') \in Nat /\ n <= Len(table')
    BY <1>1, <1>2, <1>3 DEF KeysShape, CallRecords
  <1>5. PICK d \in CallRecords :
           /\ calls' = [calls EXCEPT ![i] = d]
           /\ d.op = c.op /\ d.key = c.key /\ d.final = c.final
           /\ \/ d.answer = s.answer /\ table' = s.table /\ drops' = drops
              \/ /\ drops < MaxDrops /\ drops' = drops + 1
                 /\ d.answer \in {Null, <<>>} /\ table' \in {table, s.table}
    <2>1. <<>> \in KeyAnswers
      BY DEF KeyAnswers
    <2>2. /\ [c EXCEPT !.answer = s.answer] \in CallRecords
          /\ [c EXCEPT !.answer = <<>>] \in CallRecords /\ [c EXCEPT !.resent = TRUE] \in CallRecords
          /\ [c EXCEPT !.answer = s.answer].answer = s.answer
          /\ [c EXCEPT !.answer = <<>>].answer = <<>> /\ [c EXCEPT !.resent = TRUE].answer = Null
          /\ \A e \in {[c EXCEPT !.answer = s.answer], [c EXCEPT !.answer = <<>>],
                        [c EXCEPT !.resent = TRUE]} :
                 e.op = c.op /\ e.key = c.key /\ e.final = c.final
      BY <1>1, <1>2, <2>1 DEF CallRecords
    <2>3. /\ [calls EXCEPT ![i].answer = s.answer] = [calls EXCEPT ![i] = [c EXCEPT !.answer = s.answer]]
          /\ [calls EXCEPT ![i].answer = <<>>] = [calls EXCEPT ![i] = [c EXCEPT !.answer = <<>>]]
          /\ [calls EXCEPT ![i].resent = TRUE] = [calls EXCEPT ![i] = [c EXCEPT !.resent = TRUE]]
      OBVIOUS
    <2>4. QED
      BY <1>3, <2>2, <2>3
  <1>6. /\ calls' \in Seq(CallRecords) /\ Len(calls') = Len(calls) /\ DOMAIN calls' = DOMAIN calls
        /\ calls'[i] = d /\ \A k \in DOMAIN calls : k # i => calls'[k] = calls[k]
    BY <1>1, <1>5, ExceptSeq
  <1>7. KeysShape'
    BY <1>1, <1>3, <1>4, <1>5, <1>6, KeysConstants, SMTT(30) DEF KeysShape
  <1>8. /\ \A k \in DOMAIN calls : Holds(calls'[k]) = Holds(calls[k])
        /\ \A k \in DOMAIN calls : (calls'[k].op = "create") = (calls[k].op = "create")
    BY <1>5, <1>6 DEF Holds
  <1>9. /\ \A j, k \in DOMAIN calls' : Holds(calls'[j]) /\ Holds(calls'[k]) => j = k
        /\ \A k \in DOMAIN calls' : Holds(calls'[k]) => creating'
    BY <1>3, <1>6, <1>8 DEF KeysInv
  <1>10. /\ seen \subseteq 1 .. n /\ IsFiniteSet((1 .. n) \ seen)
         /\ Cardinality((1 .. n) \ seen) \in Nat
    <2>1. IsFiniteSet(1 .. n)
      BY <1>1, FS_Interval
    <2>2. IsFiniteSet((1 .. n) \ seen)
      BY <2>1, FS_Difference
    <2>3. QED
      BY <1>1, <2>2, FS_CardinalityType DEF KeysShape
  <1>11. CASE c.op # "create"
    <2>1. Len(table') = n
      BY <1>2, <1>5, <1>11
    <2>2. ASSUME NEW k \in DOMAIN calls
          PROVE  CallOK(calls[k])'
      <3>1. CASE k # i
        <4>1. CallOK(calls[k]) /\ calls'[k] = calls[k]
          BY <1>6, <3>1 DEF KeysInv
        <4>2. QED
          BY <1>3, <2>1, <4>1 DEF CallOK
      <3>2. CASE k = i
        <4>1. d.op = "refresh" => \/ d.answer \in {Null, <<>>}
                                  \/ d.answer[1] \in Seq(BOOLEAN) /\ Len(d.answer[1]) <= Len(table')
          BY <1>2, <1>4, <1>5, <2>1
        <4>2. d.op = "revoke" => d.key \in Nat
          BY <1>1, <1>5 DEF CallOK
        <4>3. d.op # "create"
          BY <1>5, <1>11
        <4>4. QED
          BY <1>6, <3>2, <4>1, <4>2, <4>3 DEF CallOK
      <3>3. QED
        BY <3>1, <3>2
    <2>3. Answered' = Answered /\ Unserved' = Unserved
      BY <1>5, <1>6, <1>11 DEF Answered, Unserved
    <2>4. QED
      BY <1>1, <1>3, <1>5, <1>6, <1>7, <1>8, <1>9, <1>10, <2>1, <2>2, <2>3, SMTT(30) DEF KeysInv
  <1>12. CASE c.op = "create"
    <2>1. \A k \in DOMAIN calls : calls[k].op = "create" => k = i
      BY <1>12 DEF KeysInv, Holds
    <2>2. fresh = Null
      BY <1>12 DEF KeysInv
    <2>3. ~Answered /\ Unserved
      BY <1>1, <1>12, <2>1 DEF Answered, Unserved
    <2>4. Answered' <=> d.answer \notin {Null, <<>>}
      BY <1>5, <1>6, <1>8, <1>12, <2>1 DEF Answered
    <2>5. Unserved' <=> d.answer = Null
      BY <1>5, <1>6, <1>8, <1>12, <2>1 DEF Unserved
    <2>6. Cardinality((1 .. n) \ seen) <= drops /\ n + 1 <= 1 + creates + drops
      BY <1>1, <1>10, <2>3 DEF KeysInv
    <2>7. /\ IsFiniteSet((1 .. Len(table')) \ seen) /\ Cardinality((1 .. Len(table')) \ seen) \in Nat
          /\ Len(table') = n => Cardinality((1 .. Len(table')) \ seen) = Cardinality((1 .. n) \ seen)
          /\ Len(table') = n + 1 =>
                Cardinality((1 .. Len(table')) \ seen) = Cardinality((1 .. n) \ seen) + 1
      <3>1. IsFiniteSet((1 .. Len(table')) \ seen) /\ Cardinality((1 .. Len(table')) \ seen) \in Nat
        <4>1. IsFiniteSet(1 .. Len(table'))
          BY <1>4, FS_Interval
        <4>2. IsFiniteSet((1 .. Len(table')) \ seen)
          BY <4>1, FS_Difference
        <4>3. QED
          BY <4>2, FS_CardinalityType
      <3>2. ASSUME Len(table') = n + 1
            PROVE  Cardinality((1 .. Len(table')) \ seen) = Cardinality((1 .. n) \ seen) + 1
        <4>1. 1 .. (n + 1) = (1 .. n) \cup {n + 1} /\ n + 1 \notin 1 .. n
          BY <1>1
        <4>2. (1 .. Len(table')) \ seen = ((1 .. n) \ seen) \cup {n + 1}
          BY <1>10, <3>2, <4>1
        <4>3. n + 1 \notin (1 .. n) \ seen
          BY <4>1
        <4>4. QED
          BY <1>10, <4>2, <4>3, FS_AddElement
      <3>3. QED
        BY <3>1, <3>2
    <2>8. /\ CallOK(d)'
          /\ Cardinality((1 .. Len(table')) \ seen) <= drops' + (IF Answered' THEN 1 ELSE 0)
          /\ Len(table') + (IF Unserved' THEN 1 ELSE 0) <= 1 + creates + drops'
      <3>1. CASE d.answer = <<n + 1>> /\ Len(table') = n + 1 /\ drops' = drops
        <4>1. <<n + 1>> # <<>> /\ <<n + 1>> # Null
          <5>1. <<n + 1>> \in Seq(Nat)
            BY <1>1
          <5>2. QED
            BY <5>1, KeysConstants
        <4>2. n + 1 \in 1 .. (n + 1) /\ n + 1 \notin seen
          BY <1>1, <1>10
        <4>3. CallOK(d)'
          BY <1>3, <1>5, <1>12, <3>1, <4>2 DEF CallOK
        <4>4. Answered' /\ ~Unserved'
          BY <2>4, <2>5, <3>1, <4>1
        <4>5. QED
          BY <1>1, <1>10, <2>6, <2>7, <3>1, <4>3, <4>4
      <3>2. CASE d.answer = <<>> /\ table' = table /\ drops' = drops
        <4>1. <<>> # Null
          <5>1. <<>> \in Seq(Nat)
            OBVIOUS
          <5>2. QED
            BY <5>1, KeysConstants
        <4>2. CallOK(d)' /\ ~Answered' /\ ~Unserved'
          BY <1>5, <1>12, <2>4, <2>5, <3>2, <4>1 DEF CallOK
        <4>3. QED
          BY <1>1, <1>10, <2>6, <2>7, <3>2, <4>2
      <3>3. CASE d.answer \in {Null, <<>>} /\ drops' = drops + 1 /\ Len(table') \in {n, n + 1}
        <4>1. CallOK(d)' /\ ~Answered'
          BY <1>5, <1>12, <2>4, <3>3 DEF CallOK
        <4>2. Cardinality((1 .. Len(table')) \ seen) <= drops + 1
          BY <1>1, <1>10, <2>6, <2>7, <3>3
        <4>3. Len(table') + 1 <= 1 + creates + (drops + 1)
          BY <1>1, <2>6, <3>3
        <4>4. QED
          BY <1>1, <1>4, <2>7, <3>3, <4>1, <4>2, <4>3
      <3>4. QED
        BY <1>2, <1>5, <1>12, <3>1, <3>2, <3>3
    <2>9. ASSUME NEW k \in DOMAIN calls
          PROVE  CallOK(calls[k])'
      <3>1. CASE k = i
        BY <1>6, <2>8, <3>1
      <3>2. CASE k # i
        <4>1. CallOK(calls[k]) /\ calls'[k] = calls[k] /\ calls[k].op # "create"
          BY <1>6, <2>1, <3>2 DEF KeysInv
        <4>2. CASE calls[k].op = "refresh" /\ calls[k].answer \notin {Null, <<>>}
          <5>1. calls[k].answer[1] \in Seq(BOOLEAN) /\ Len(calls[k].answer[1]) <= n
            BY <4>1, <4>2 DEF CallOK
          <5>2. Len(calls[k].answer[1]) <= Len(table')
            BY <1>1, <1>4, <5>1, LenProperties
          <5>3. QED
            BY <4>1, <4>2, <5>1, <5>2 DEF CallOK
        <4>3. QED
          BY <4>1, <4>2 DEF CallOK
      <3>3. QED
        BY <3>1, <3>2
    <2>10. QED
      BY <1>3, <1>6, <1>7, <1>8, <1>9, <2>2, <2>8, <2>9 DEF KeysInv
  <1>13. QED
    BY <1>11, <1>12

Refresh(f) == Keys!Call("refresh", Null, f)

LEMMA RefreshCall ==
  ASSUME NEW f \in BOOLEAN
  PROVE  /\ Refresh(f) \in CallRecords /\ Refresh(f).op = "refresh" /\ Refresh(f).final = f
         /\ Refresh(f).answer = Null
  BY DEF Refresh, Keys!Call, CallRecords, KeyAnswers

(* The calls after an answer was read: the others, and maybe a refresh.    *)
LEMMA ReadCalls ==
  ASSUME KeysInv, NEW i \in DOMAIN calls, NEW f \in BOOLEAN, f => Holds(calls[i]),
         \/ calls' = Keys!RemoveAt(calls, i)
         \/ calls' = Append(Keys!RemoveAt(calls, i), Refresh(f))
  PROVE  /\ calls' \in Seq(CallRecords) /\ Len(calls') <= Len(calls)
         /\ \A k \in DOMAIN calls' :
               \/ calls'[k] = Refresh(f)
               \/ \E j \in DOMAIN calls : j # i /\ calls'[k] = calls[j]
         /\ \A j \in DOMAIN calls : j # i => \E k \in DOMAIN calls' : calls'[k] = calls[j]
         /\ \A k, m \in DOMAIN calls' : Holds(calls'[k]) /\ Holds(calls'[m]) => k = m
  <1> DEFINE rest == Keys!RemoveAt(calls, i)
             n == Len(calls)
             old(k) == IF k < i THEN k ELSE k + 1
  <1>1. /\ calls \in Seq(CallRecords) /\ DOMAIN calls = 1 .. n /\ n \in Nat /\ Len(calls) = n
        /\ i \in 1 .. n /\ i \in Int /\ 1 <= i /\ i <= n
        /\ \A j, k \in 1 .. n : Holds(calls[j]) /\ Holds(calls[k]) => j = k
    <2>1. /\ calls \in Seq(CallRecords)
          /\ \A j, k \in DOMAIN calls : Holds(calls[j]) /\ Holds(calls[k]) => j = k
      BY DEF KeysInv, KeysShape
    <2>2. DOMAIN calls = 1 .. n /\ n \in Nat
      BY <2>1, LenProperties
    <2> HIDE DEF n
    <2>3. i \in 1 .. n /\ i \in Int /\ 1 <= i /\ i <= n
      BY <2>2
    <2>4. QED
      BY <2>1, <2>2, <2>3 DEF n
  <1>2. /\ rest \in Seq(CallRecords) /\ Len(rest) = n - 1
        /\ \A k \in 1 .. (n - 1) : rest[k] = calls[old(k)]
    <2>1. i \in 1 .. Len(calls) /\ calls \in Seq(CallRecords)
      BY <1>1
    <2>2. /\ rest \in Seq(CallRecords) /\ Len(rest) = Len(calls) - 1
          /\ \A k \in 1 .. (Len(calls) - 1) : rest[k] = IF k < i THEN calls[k] ELSE calls[k + 1]
      BY <2>1, RemovedCall
    <2> HIDE DEF rest
    <2>3. ASSUME NEW k \in 1 .. (n - 1)
          PROVE  rest[k] = calls[old(k)]
      BY <2>2
    <2>4. QED
      BY <2>2, <2>3
  <1>3. \A k \in 1 .. (n - 1) : old(k) \in 1 .. n /\ old(k) # i
    BY <1>1
  <1>4. \A k, m \in 1 .. (n - 1) : old(k) = old(m) => k = m
    BY <1>1
  <1>5. ASSUME NEW j \in 1 .. n, j # i
        PROVE  \E k \in 1 .. (n - 1) : old(k) = j
    <2>1. CASE j < i
      <3>1. j \in 1 .. (n - 1) /\ old(j) = j
        BY <1>1, <2>1
      <3>2. QED
        BY <3>1
    <2>2. CASE ~(j < i)
      <3>1. j - 1 \in 1 .. (n - 1) /\ old(j - 1) = j
        BY <1>1, <1>5, <2>2
      <3>2. QED
        BY <3>1
    <2>3. QED
      BY <2>1, <2>2
  <1> HIDE DEF rest, old, n
  <1>6. /\ \A k \in 1 .. (n - 1) : \E j \in 1 .. n : j # i /\ rest[k] = calls[j]
        /\ \A j \in 1 .. n : j # i => \E k \in 1 .. (n - 1) : rest[k] = calls[j]
    BY <1>2, <1>3, <1>5
  <1>7. \A k, m \in 1 .. (n - 1) : Holds(rest[k]) /\ Holds(rest[m]) => k = m
    BY <1>1, <1>2, <1>3, <1>4
  <1>8. CASE calls' = rest
    <2>1. DOMAIN calls' = 1 .. (n - 1) /\ Len(calls') <= n
      BY <1>1, <1>2, <1>8, LenProperties
    <2>2. calls' \in Seq(CallRecords) /\ Len(calls') <= Len(calls)
      BY <1>1, <1>2, <1>8, <2>1
    <2>3. DOMAIN calls = 1 .. n
      BY <1>1
    <2>4. QED
      BY <1>6, <1>7, <1>8, <2>1, <2>2, <2>3, Zenon
  <1>9. CASE calls' = Append(rest, Refresh(f))
    <2>1. Refresh(f) \in CallRecords
      BY RefreshCall
    <2>2. /\ calls' \in Seq(CallRecords) /\ Len(calls') = n /\ DOMAIN calls' = 1 .. n
          /\ \A k \in 1 .. (n - 1) : calls'[k] = rest[k]
          /\ calls'[n] = Refresh(f)
      <3>1. /\ calls' \in Seq(CallRecords) /\ Len(calls') = (n - 1) + 1
            /\ \A k \in 1 .. (n - 1) : calls'[k] = rest[k]
            /\ calls'[(n - 1) + 1] = Refresh(f)
        BY <1>2, <1>9, <2>1, AppendProperties
      <3>2. (n - 1) + 1 = n
        BY <1>1
      <3>3. QED
        BY <3>1, <3>2, LenProperties
    <2>3. \A k \in 1 .. n : k = n \/ k \in 1 .. (n - 1)
      BY <1>1
    <2>4. ASSUME NEW k \in 1 .. n
          PROVE  calls'[k] = Refresh(f) \/ \E j \in 1 .. n : j # i /\ calls'[k] = calls[j]
      <3>1. CASE k = n
        BY <2>2, <3>1
      <3>2. CASE k \in 1 .. (n - 1)
        <4>1. calls'[k] = rest[k]
          BY <2>2, <3>2
        <4>2. PICK j \in 1 .. n : j # i /\ rest[k] = calls[j]
          BY <1>6, <3>2
        <4>3. QED
          BY <4>1, <4>2
      <3>3. QED
        BY <2>3, <3>1, <3>2
    <2>5. ASSUME NEW j \in 1 .. n, j # i
          PROVE  \E k \in 1 .. n : calls'[k] = calls[j]
      <3>1. PICK k \in 1 .. (n - 1) : rest[k] = calls[j]
        BY <1>6, <2>5
      <3>2. k \in 1 .. n
        BY <1>1
      <3>3. QED
        BY <2>2, <3>1, <3>2
    <2>6. Holds(Refresh(f)) => \A k \in 1 .. (n - 1) : ~Holds(rest[k])
      <3>1. Holds(Refresh(f)) => Holds(calls[i])
        BY RefreshCall DEF Holds
      <3>2. QED
        BY <1>1, <1>6, <3>1
    <2>7. ASSUME NEW k \in 1 .. n, NEW m \in 1 .. n, Holds(calls'[k]), Holds(calls'[m])
          PROVE  k = m
      BY <1>7, <2>2, <2>3, <2>6, <2>7
    <2>8. /\ calls' \in Seq(CallRecords) /\ Len(calls') <= Len(calls)
          /\ DOMAIN calls = 1 .. n /\ DOMAIN calls' = 1 .. n
      BY <1>1, <2>2
    <2>9. QED
      BY <2>4, <2>5, <2>7, <2>8, Zenon
  <1>10. QED
    BY <1>8, <1>9 DEF rest

(* An answer that brings no new key.                                       *)
LEMMA ReadKeeps ==
  ASSUME KeysInv, NEW i \in DOMAIN calls, NEW f \in BOOLEAN, f => Holds(calls[i]),
         \/ calls' = Keys!RemoveAt(calls, i)
         \/ calls' = Append(Keys!RemoveAt(calls, i), Refresh(f)),
         UNCHANGED <<known, table, creates, revokes, drops, fresh, seen>>,
         swapped' \in BOOLEAN, listed' \in Seq(BOOLEAN), Len(listed') <= Len(table),
         calls[i].answer # Null, calls[i].op # "create" \/ calls[i].answer = <<>>,
         creating' = creating \/ (creating' = (creating /\ ~Holds(calls[i])) /\ ~f)
  PROVE  KeysInv'
  <1>1. /\ calls' \in Seq(CallRecords) /\ Len(calls') <= Len(calls)
        /\ \A k \in DOMAIN calls' :
               \/ calls'[k] = Refresh(f)
               \/ \E j \in DOMAIN calls : j # i /\ calls'[k] = calls[j]
        /\ \A j \in DOMAIN calls : j # i => \E k \in DOMAIN calls' : calls'[k] = calls[j]
        /\ \A k, m \in DOMAIN calls' : Holds(calls'[k]) /\ Holds(calls'[m]) => k = m
    BY ReadCalls
  <1>2. /\ Refresh(f).op = "refresh" /\ Refresh(f).final = f /\ Refresh(f).answer = Null
    BY RefreshCall
  <1>3. KeysShape'
    <2>1. Len(calls) \in Nat /\ Len(calls') \in Nat
      BY <1>1, LenProperties DEF KeysInv, KeysShape
    <2>2. Len(calls') <= creates + revokes
      BY <1>1, <2>1, KeysConstants DEF KeysInv, KeysShape
    <2>3. creating' \in BOOLEAN
      BY DEF KeysInv, KeysShape
    <2>4. QED
      BY <1>1, <2>2, <2>3 DEF KeysInv, KeysShape
  <1>4. ASSUME NEW k \in DOMAIN calls'
        PROVE  /\ CallOK(calls[k])' /\ (Holds(calls'[k]) => creating')
               /\ fresh' # Null => calls'[k].op # "create"
    <2>1. CASE calls'[k] = Refresh(f)
      <3>1. CallOK(calls[k])' /\ calls'[k].op # "create"
        BY <1>2, <2>1 DEF CallOK
      <3>2. Holds(calls'[k]) => f
        BY <1>2, <2>1 DEF Holds
      <3>3. f => creating'
        BY DEF KeysInv
      <3>4. QED
        BY <3>1, <3>2, <3>3
    <2>2. ASSUME NEW j \in DOMAIN calls, j # i, calls'[k] = calls[j]
          PROVE  /\ CallOK(calls[k])' /\ (Holds(calls'[k]) => creating')
                 /\ fresh' # Null => calls'[k].op # "create"
      <3>1. CallOK(calls[j]) /\ (Holds(calls[j]) => creating)
        BY DEF KeysInv
      <3>2. CallOK(calls[k])'
        BY <2>2, <3>1 DEF CallOK
      <3>3. Holds(calls[j]) => ~Holds(calls[i])
        BY <2>2 DEF KeysInv
      <3>4. fresh' # Null => calls[j].op # "create"
        BY DEF KeysInv
      <3>5. QED
        BY <2>2, <3>1, <3>2, <3>3, <3>4
    <2>3. QED
      BY <1>1, <2>1, <2>2
  <1>5. Answered => Answered'
    <2>1. SUFFICES ASSUME NEW j \in DOMAIN calls, calls[j].op = "create",
                          calls[j].answer \notin {Null, <<>>}
                   PROVE  Answered'
      BY DEF Answered
    <2>2. j # i
      BY <2>1
    <2>3. QED
      BY <1>1, <2>1, <2>2 DEF Answered
  <1>6. Unserved' => Unserved
    <2>1. SUFFICES ASSUME NEW k \in DOMAIN calls', calls'[k].op = "create", calls'[k].answer = Null
                   PROVE  Unserved
      BY DEF Unserved
    <2>2. calls'[k] # Refresh(f)
      BY <1>2, <2>1
    <2>3. QED
      BY <1>1, <2>1, <2>2 DEF Unserved
  <1>7. /\ Cardinality((1 .. Len(table)) \ seen) \in Nat /\ drops \in Nat /\ creates \in Nat
        /\ Len(table) \in Nat
    <2>1. Len(table) \in Nat /\ drops \in Nat /\ creates \in Nat
      BY LenProperties, KeysConstants DEF KeysInv, KeysShape
    <2>2. IsFiniteSet(1 .. Len(table))
      BY <2>1, FS_Interval
    <2>3. IsFiniteSet((1 .. Len(table)) \ seen)
      BY <2>2, FS_Difference
    <2>4. QED
      BY <2>1, <2>3, FS_CardinalityType
  <1>8. /\ Cardinality((1 .. Len(table)) \ seen) <= drops + (IF Answered' THEN 1 ELSE 0)
        /\ Len(table) + (IF Unserved' THEN 1 ELSE 0) <= 1 + creates + drops
    BY <1>5, <1>6, <1>7 DEF KeysInv
  <1>9. QED
    BY <1>1, <1>3, <1>4, <1>8 DEF KeysInv

LEMMA ReceiveStep ==
  ASSUME KeysInv, NEW i \in DOMAIN calls, Keys!Receive(i)
  PROVE  KeysInv'
  <1> DEFINE c == calls[i]
             n == Len(table)
  <1>1. /\ calls \in Seq(CallRecords) /\ c \in CallRecords /\ CallOK(c) /\ KeysShape
        /\ n \in Nat /\ Len(calls) \in Nat
        /\ c.answer # Null /\ c.op \in {"create", "revoke", "refresh"} /\ c.final \in BOOLEAN
    <2>1. calls \in Seq(CallRecords) /\ i \in 1 .. Len(calls) /\ KeysShape /\ CallOK(c)
      BY LenProperties DEF KeysInv, KeysShape
    <2>2. c \in CallRecords /\ Len(calls) \in Nat
      BY <2>1, ElementOfSeq, LenProperties
    <2>3. QED
      BY <2>1, <2>2, LenProperties DEF KeysShape, Keys!Receive, CallRecords
  <1>2. /\ UNCHANGED <<known, table, creates, revokes, drops>>
        /\ swapped' \in BOOLEAN
    BY DEF Keys!Receive
  <1>3. CASE c.answer = <<>>
    <2>1. /\ calls' = Keys!RemoveAt(calls, i) /\ creating' = (creating /\ ~Holds(c))
          /\ UNCHANGED <<listed, fresh, seen>>
      BY <1>3, Zenon DEF Keys!Receive, Keys!Failed, Holds
    <2>2. listed' \in Seq(BOOLEAN) /\ Len(listed') <= Len(table)
      BY <1>1, <2>1 DEF KeysShape
    <2>3. QED
      BY <1>1, <1>2, <1>3, <2>1, <2>2, ReadKeeps
  <1>4. CASE c.answer # <<>> /\ c.op = "create"
    <2>1. /\ fresh' = c.answer[1] /\ seen' = seen \cup {c.answer[1]}
          /\ calls' = Append(Keys!RemoveAt(calls, i), Refresh(TRUE))
          /\ UNCHANGED <<listed, creating>>
      BY <1>4 DEF Keys!Receive, Keys!Failed, Refresh
    <2>2. /\ c.answer[1] = n /\ n \in 1 .. n /\ n \notin seen
      BY <1>1, <1>4 DEF CallOK
    <2>3. Holds(c) /\ creating
      BY <1>4 DEF KeysInv, Holds
    <2>4. /\ calls' \in Seq(CallRecords) /\ Len(calls') <= Len(calls)
          /\ \A k \in DOMAIN calls' :
                \/ calls'[k] = Refresh(TRUE)
                \/ \E j \in DOMAIN calls : j # i /\ calls'[k] = calls[j]
          /\ \A k, m \in DOMAIN calls' : Holds(calls'[k]) /\ Holds(calls'[m]) => k = m
      BY <2>1, <2>3, ReadCalls
    <2>5. ASSUME NEW k \in DOMAIN calls'
          PROVE  CallOK(calls[k])' /\ calls'[k].op # "create"
      <3>1. CASE calls'[k] = Refresh(TRUE)
        BY <3>1, RefreshCall DEF CallOK
      <3>2. ASSUME NEW j \in DOMAIN calls, j # i, calls'[k] = calls[j]
            PROVE  CallOK(calls[k])' /\ calls'[k].op # "create"
        <4>1. CallOK(calls[j]) /\ ~Holds(calls[j])
          BY <2>3, <3>2 DEF KeysInv
        <4>2. QED
          BY <1>2, <3>2, <4>1 DEF CallOK, Holds
      <3>3. QED
        BY <2>4, <3>1, <3>2
    <2>6. KeysShape'
      <3>1. Len(calls') \in Nat
        BY <2>4, LenProperties
      <3>2. Len(calls') <= creates + revokes
        BY <1>1, <2>4, <3>1, KeysConstants DEF KeysShape
      <3>3. fresh' \in 1 .. n /\ seen' \subseteq 1 .. n
        BY <1>1, <2>1, <2>2 DEF KeysShape
      <3>4. QED
        BY <1>1, <1>2, <2>1, <2>4, <3>2, <3>3 DEF KeysShape
    <2>7. Answered /\ ~Answered' /\ ~Unserved'
      BY <1>1, <1>4, <2>5 DEF Answered, Unserved
    <2>8. Cardinality((1 .. n) \ seen') <= drops
      <3>1. (1 .. n) \ seen' = ((1 .. n) \ seen) \ {n} /\ n \in (1 .. n) \ seen
        BY <2>1, <2>2
      <3>2. IsFiniteSet(1 .. n)
        BY <1>1, FS_Interval, SMTT(30)
      <3>3. IsFiniteSet((1 .. n) \ seen)
        BY <3>2, FS_Difference
      <3>4. /\ Cardinality((1 .. n) \ seen') = Cardinality((1 .. n) \ seen) - 1
            /\ Cardinality((1 .. n) \ seen) \in Nat
        <4> DEFINE m == (1 .. n) \ seen
        <4> HIDE DEF m, n
        <4>1. IsFiniteSet(m) /\ n \in m /\ (1 .. n) \ seen' = m \ {n}
          BY <3>1, <3>3 DEF m
        <4>2. Cardinality(m) \in Nat
          BY <4>1, FS_CardinalityType
        <4>3. Cardinality(m \ {n}) = Cardinality(m) - 1
          BY <4>1, FS_RemoveElement
        <4>4. QED
          BY <4>1, <4>2, <4>3 DEF m
      <3>5. Cardinality((1 .. n) \ seen) <= drops + 1 /\ drops \in Nat
        BY <1>1, <2>7, KeysConstants DEF KeysInv, KeysShape
      <3>6. QED
        BY <3>4, <3>5
    <2>9. n <= 1 + creates + drops
      <3>1. drops \in Nat /\ creates \in Nat
        BY <1>1, KeysConstants DEF KeysShape
      <3>2. QED
        BY <1>1, <3>1 DEF KeysInv
    <2>10. drops + 0 = drops /\ n + 0 = n
      BY <1>1, KeysConstants DEF KeysShape
    <2>11. QED
      BY <1>2, <2>1, <2>2, <2>3, <2>4, <2>5, <2>6, <2>7, <2>8, <2>9, <2>10 DEF KeysInv
  <1>5. CASE c.answer # <<>> /\ c.op = "revoke"
    <2>1. /\ calls' = Append(Keys!RemoveAt(calls, i), Refresh(FALSE))
          /\ UNCHANGED <<listed, creating, fresh, seen>>
      BY <1>5 DEF Keys!Receive, Keys!Failed, Refresh
    <2>2. listed' \in Seq(BOOLEAN) /\ Len(listed') <= Len(table)
      BY <1>1, <2>1 DEF KeysShape
    <2>3. QED
      BY <1>1, <1>2, <1>5, <2>1, <2>2, ReadKeeps
  <1>6. CASE c.answer # <<>> /\ c.op = "refresh"
    <2>1. /\ calls' = Keys!RemoveAt(calls, i) /\ listed' = c.answer[1]
          /\ creating' = (creating /\ ~Holds(c))
          /\ UNCHANGED <<fresh, seen>>
      BY <1>6 DEF Keys!Receive, Keys!Failed, Holds
    <2>2. listed' \in Seq(BOOLEAN) /\ Len(listed') <= Len(table)
      BY <1>1, <1>6, <2>1 DEF CallOK
    <2>3. QED
      BY <1>1, <1>2, <1>6, <2>1, <2>2, ReadKeeps
  <1>7. QED
    BY <1>1, <1>3, <1>4, <1>5, <1>6

(* A button adds a call of its own.                                        *)
LEMMA PressStep ==
  ASSUME KeysInv, NEW c \in CallRecords, calls' = Append(calls, c),
         c.answer = Null, ~c.final, c.op \in {"create", "revoke"},
         UNCHANGED <<known, table, listed, seen, swapped, drops>>,
         creates' \in 0 .. MaxCreates, revokes' \in 0 .. MaxRevokes,
         creates' + revokes' = creates + revokes + 1,
         \/ /\ c.op = "create" /\ ~creating /\ creating' /\ creating' \in BOOLEAN
            /\ fresh' = Null /\ creates' = creates + 1
         \/ /\ c.op = "revoke" /\ c.key \in Nat
            /\ UNCHANGED <<creating, fresh, creates>>
  PROVE  KeysInv'
  <1> DEFINE n == Len(calls)
  <1>1. /\ n \in Nat /\ DOMAIN calls = 1 .. n /\ KeysShape
        /\ Len(table) \in Nat /\ drops \in Nat /\ creates \in Nat /\ revokes \in Nat
    BY LenProperties, KeysConstants DEF KeysInv, KeysShape
  <1>2. /\ calls' \in Seq(CallRecords) /\ Len(calls') = n + 1 /\ DOMAIN calls' = 1 .. (n + 1)
        /\ \A k \in 1 .. n : calls'[k] = calls[k]
        /\ calls'[n + 1] = c
    BY <1>1, AppendProperties, LenProperties DEF KeysShape
  <1>3. /\ \A k \in 1 .. (n + 1) : k = n + 1 \/ k \in 1 .. n
        /\ \A k \in 1 .. n : k \in 1 .. (n + 1)
        /\ n + 1 \in 1 .. (n + 1)
    BY <1>1
  <1>4. n + 1 <= creates' + revokes'
    <2>1. n <= creates + revokes
      BY <1>1 DEF KeysShape
    <2>2. creates' + revokes' = (creates + revokes) + 1
      OBVIOUS
    <2> HIDE DEF n
    <2>3. \A a, b \in Nat : b <= a => b + 1 <= a + 1
      OBVIOUS
    <2>4. creates + revokes \in Nat /\ n \in Nat
      BY <1>1
    <2>5. n + 1 <= (creates + revokes) + 1
      BY <2>1, <2>3, <2>4
    <2>6. QED
      BY <2>2, <2>5, Zenon
  <1> HIDE DEF n
  <1>5. KeysShape'
    <2>1. creating' \in BOOLEAN /\ fresh' \in (1 .. Len(table)) \cup {Null}
      BY <1>1 DEF KeysShape
    <2>2. QED
      BY <1>1, <1>2, <1>4, <2>1 DEF KeysShape
  <1>6. \A k \in 1 .. n : CallOK(calls[k]) /\ (Holds(calls[k]) => creating)
    BY <1>1 DEF KeysInv
  <1>7. ASSUME NEW k \in 1 .. (n + 1)
        PROVE  CallOK(calls[k])' /\ (Holds(calls'[k]) => creating')
    <2>1. CASE k = n + 1
      BY <1>2, <2>1 DEF CallOK, Holds
    <2>2. CASE k \in 1 .. n
      BY <1>2, <1>6, <2>2, SMTT(30) DEF CallOK
    <2>3. QED
      BY <1>3, <2>1, <2>2
  <1>8. ASSUME NEW j \in 1 .. (n + 1), NEW k \in 1 .. (n + 1), Holds(calls'[j]), Holds(calls'[k])
        PROVE  j = k
    <2>1. Holds(c) => \A m \in 1 .. n : ~Holds(calls[m])
      BY <1>6 DEF Holds
    <2>2. \A l, m \in 1 .. n : Holds(calls[l]) /\ Holds(calls[m]) => l = m
      BY <1>1 DEF KeysInv
    <2>3. CASE j \in 1 .. n /\ k \in 1 .. n
      BY <1>2, <1>8, <2>2, <2>3
    <2>4. CASE j \in 1 .. n /\ k = n + 1
      BY <1>2, <1>8, <2>1, <2>4
    <2>5. CASE k \in 1 .. n /\ j = n + 1
      BY <1>2, <1>8, <2>1, <2>5
    <2>6. QED
      BY <1>3, <2>3, <2>4, <2>5
  <1>9. fresh' # Null => fresh' = Len(table) /\ \A k \in 1 .. (n + 1) : calls'[k].op # "create"
    <2>1. SUFFICES ASSUME fresh' # Null
                   PROVE  fresh' = Len(table) /\ \A k \in 1 .. (n + 1) : calls'[k].op # "create"
      OBVIOUS
    <2>2. c.op = "revoke" /\ fresh' = fresh
      BY <2>1
    <2>3. fresh = Len(table) /\ \A k \in 1 .. n : calls[k].op # "create"
      BY <1>1, <2>1, <2>2 DEF KeysInv
    <2>4. QED
      BY <1>2, <1>3, <2>2, <2>3
  <1>10. Answered' <=> Answered
    <2>1. Answered' <=> \E k \in 1 .. n : calls'[k].op = "create" /\ calls'[k].answer \notin {Null, <<>>}
      BY <1>2, <1>3 DEF Answered
    <2>2. QED
      BY <1>1, <1>2, <2>1 DEF Answered
  <1>11. Unserved' => Unserved \/ c.op = "create"
    BY <1>1, <1>2, <1>3 DEF Unserved
  <1>12. c.op = "create" => ~Unserved
    BY <1>1, <1>6 DEF Unserved, Holds
  <1>13. Len(table) + (IF Unserved' THEN 1 ELSE 0) <= 1 + creates' + drops
    <2>1. Len(table) + (IF Unserved THEN 1 ELSE 0) <= 1 + creates + drops
      BY DEF KeysInv
    <2>2. CASE c.op = "create"
      <3>1. Len(table) <= 1 + creates + drops /\ creates' = creates + 1
        BY <1>1, <1>12, <2>1, <2>2
      <3>2. QED
        BY <1>1, <3>1
    <2>3. CASE c.op = "revoke"
      BY <1>1, <1>11, <2>1, <2>3
    <2>4. QED
      BY <2>2, <2>3
  <1>14. /\ Cardinality((1 .. Len(table)) \ seen) <= drops + (IF Answered' THEN 1 ELSE 0)
    BY <1>10 DEF KeysInv
  <1>15. QED
    BY <1>2, <1>5, <1>7, <1>8, <1>9, <1>13, <1>14 DEF KeysInv

LEMMA KeysMoves ==
  ASSUME KeysInv, Keys!Next
  PROVE  KeysInv'
  <1>1. KeysShape /\ creates \in Nat /\ revokes \in Nat
    BY KeysConstants DEF KeysInv, KeysShape
  <1>2. CASE Keys!CreateKey
    <2> DEFINE c == Keys!Call("create", Null, FALSE)
    <2>1. /\ c \in CallRecords /\ c.op = "create" /\ c.answer = Null /\ ~c.final
      BY DEF Keys!Call, CallRecords, KeyAnswers
    <2>2. /\ ~creating /\ creates < MaxCreates /\ creates' = creates + 1
          /\ creating' = TRUE /\ fresh' = Null /\ calls' = Append(calls, c)
          /\ UNCHANGED <<known, table, listed, seen, swapped, revokes, drops>>
      BY <1>2 DEF Keys!CreateKey, Keys!CreateForm
    <2> HIDE DEF c
    <2>3. creates' \in 0 .. MaxCreates /\ revokes' \in 0 .. MaxRevokes
          /\ creates' + revokes' = creates + revokes + 1
      BY <1>1, <2>2, KeysConstants DEF KeysShape
    <2>4. QED
      BY <2>1, <2>2, <2>3, PressStep
  <1>3. CASE Keys!RevokeKey
    <2>1. PICK k \in Keys!RevokeButtons : calls' = Append(calls, Keys!Call("revoke", k, FALSE))
      BY <1>3 DEF Keys!RevokeKey
    <2>2. k \in Nat
      BY <1>1, LenProperties DEF KeysShape, Keys!RevokeButtons, Keys!KeyTable
    <2> DEFINE c == Keys!Call("revoke", k, FALSE)
    <2>3. /\ c \in CallRecords /\ c.op = "revoke" /\ c.answer = Null /\ ~c.final /\ c.key \in Nat
      BY <2>2 DEF Keys!Call, CallRecords, KeyAnswers
    <2>4. /\ revokes < MaxRevokes /\ revokes' = revokes + 1 /\ calls' = Append(calls, c)
          /\ UNCHANGED <<known, table, listed, creating, fresh, seen, swapped, creates, drops>>
      BY <1>3, <2>1 DEF Keys!RevokeKey
    <2> HIDE DEF c
    <2>5. creates' \in 0 .. MaxCreates /\ revokes' \in 0 .. MaxRevokes
          /\ creates' + revokes' = creates + revokes + 1
      BY <1>1, <2>4, KeysConstants DEF KeysShape
    <2>6. QED
      BY <2>3, <2>4, <2>5, PressStep
  <1>4. CASE Keys!Dismiss \/ Keys!Subscribed
    BY <1>4 DEF Keys!Dismiss, Keys!Subscribed, KeysInv, KeysShape, CallOK, Answered, Unserved
  <1>5. ASSUME NEW i \in DOMAIN calls, Keys!Serve(i) \/ Keys!Receive(i)
        PROVE  KeysInv'
    BY <1>5, ServeStep, ReceiveStep
  <1>6. QED
    BY <1>2, <1>3, <1>4, <1>5 DEF Keys!Next

LEMMA KeysAlone ==
  ASSUME [Next]_vars
  PROVE  Keys!Next \/ UNCHANGED keysVars
  BY DEF Next, InWeb, InBackend, vars, webVars

LEMMA KeysInvariant == Spec => []KeysInv
  <1>1. Init => KeysInv
    <2>1. SUFFICES ASSUME Keys!Init
                   PROVE  KeysInv
      BY DEF Init
    <2>2. /\ table \in Seq(BOOLEAN) /\ Len(table) \in {0, 1} /\ DOMAIN table = 1 .. Len(table)
          /\ listed \in {table, <<>>} /\ drops \in 0 .. MaxDrops /\ known \in BOOLEAN
      <3>1. /\ table \in {<<>>, <<TRUE>>} /\ listed \in {table, <<>>} /\ known \in BOOLEAN
            /\ drops \in 0 .. MaxDrops
        <4>1. table \in IF known THEN {<<>>, <<TRUE>>} ELSE {<<>>}
          BY <2>1 DEF Keys!Init
        <4>2. table \in {<<>>, <<TRUE>>}
          <5>1. CASE known
            BY <4>1, <5>1
          <5>2. CASE ~known
            BY <4>1, <5>2
          <5>3. QED
            BY <5>1, <5>2
        <4>3. (listed = table /\ drops = 0) \/ (listed = <<>> /\ drops = 1 /\ drops <= MaxDrops)
          BY <2>1 DEF Keys!Init
        <4>4. drops \in 0 .. MaxDrops
          BY <4>3, KeysConstants
        <4>5. QED
          BY <2>1, <4>2, <4>3, <4>4 DEF Keys!Init
      <3>2. <<>> \in Seq(BOOLEAN) /\ Len(<<>>) = 0 /\ DOMAIN <<>> = 1 .. 0
        OBVIOUS
      <3>3. <<TRUE>> \in Seq(BOOLEAN) /\ Len(<<TRUE>>) = 1 /\ DOMAIN <<TRUE>> = 1 .. 1
        OBVIOUS
      <3>4. QED
        BY <3>1, <3>2, <3>3
    <2>3. /\ creating = FALSE /\ fresh = Null /\ calls = <<>> /\ seen = 1 .. Len(table)
          /\ swapped = FALSE /\ creates = 0 /\ revokes = 0
      BY <2>1, <2>2 DEF Keys!Init
    <2>4. listed \in Seq(BOOLEAN) /\ Len(listed) <= Len(table)
      <3>1. <<>> \in Seq(BOOLEAN) /\ Len(<<>>) = 0
        OBVIOUS
      <3>2. CASE listed = table
        BY <2>2, <3>2
      <3>3. CASE listed = <<>>
        BY <2>2, <3>1, <3>3
      <3>4. QED
        BY <2>2, <3>2, <3>3
    <2>5. calls \in Seq(CallRecords) /\ Len(calls) = 0 /\ DOMAIN calls = {}
      BY <2>3, EmptySeq
    <2>6. KeysShape
      <3>1. /\ Len(calls) <= creates + revokes /\ seen \subseteq 1 .. Len(table)
            /\ creates \in 0 .. MaxCreates /\ revokes \in 0 .. MaxRevokes
        BY <2>3, <2>5, KeysConstants
      <3>2. creating \in BOOLEAN /\ swapped \in BOOLEAN /\ fresh \in (1 .. Len(table)) \cup {Null}
        BY <2>3
      <3>3. QED
        BY <2>2, <2>4, <2>5, <3>1, <3>2, Zenon DEF KeysShape
    <2>7. Cardinality((1 .. Len(table)) \ seen) = 0
      <3>1. (1 .. Len(table)) \ seen = {}
        BY <2>3
      <3>2. QED
        BY <3>1, FS_EmptySet
    <2>8. ~Answered /\ ~Unserved
      BY <2>5 DEF Answered, Unserved
    <2>9. drops \in Nat
      BY <2>2, KeysConstants
    <2>10. QED
      BY <2>2, <2>3, <2>5, <2>6, <2>7, <2>8, <2>9 DEF KeysInv
  <1>2. KeysInv /\ [Next]_vars => KeysInv'
    <2>1. SUFFICES ASSUME KeysInv, [Next]_vars
                   PROVE  KeysInv'
      OBVIOUS
    <2>2. CASE Keys!Next
      BY <2>1, <2>2, KeysMoves
    <2>3. CASE UNCHANGED keysVars
      BY <2>1, <2>3, SMTT(30) DEF keysVars, KeysInv, KeysShape, CallOK, Answered, Unserved
    <2>4. QED
      BY <2>1, <2>2, <2>3, KeysAlone
  <1>3. QED
    BY <1>1, <1>2, PTL DEF Spec

(* The key on display is always the newest, and every other one's plain    *)
(* text has been shown, but for the creation that was answered and one key *)
(* for each call that was lost: for any number of clicks and losses.       *)
THEOREM NoKeyIsLost == Spec => []KeysAccountedFor
  <1>1. KeysInv => KeysAccountedFor
    <2>1. SUFFICES ASSUME KeysInv
                   PROVE  Keys!KeysAccountedFor
      BY DEF KeysAccountedFor
    <2> DEFINE made == {i \in DOMAIN calls : calls[i].op = "create" /\ calls[i].answer \notin {Null, <<>>}}
    <2>2. /\ DOMAIN table = 1 .. Len(table) /\ Len(table) \in Nat /\ drops \in Nat
          /\ DOMAIN calls = 1 .. Len(calls) /\ Len(calls) \in Nat
      BY <2>1, LenProperties, KeysConstants DEF KeysInv, KeysShape
    <2>3. IsFiniteSet(made)
      <3>1. IsFiniteSet(1 .. Len(calls))
        BY <2>2, FS_Interval
      <3>2. made \subseteq 1 .. Len(calls)
        BY <2>2
      <3>3. QED
        BY <3>1, <3>2, FS_Subset
    <2>4. Cardinality(made) \in Nat /\ (Answered => Cardinality(made) # 0)
      <3>1. Cardinality(made) \in Nat /\ (Cardinality(made) = 0 <=> made = {})
        BY <2>3, FS_CardinalityType, FS_EmptySet
      <3>2. Answered => made # {}
        BY DEF Answered
      <3>3. QED
        BY <3>1, <3>2
    <2>5. /\ Cardinality((1 .. Len(table)) \ seen) <= drops + (IF Answered THEN 1 ELSE 0)
          /\ fresh # Null => fresh = Len(table)
      BY <2>1 DEF KeysInv
    <2>6. Cardinality((1 .. Len(table)) \ seen) \in Nat
      <3>1. IsFiniteSet(1 .. Len(table))
        BY <2>2, FS_Interval
      <3>2. IsFiniteSet((1 .. Len(table)) \ seen)
        BY <3>1, FS_Difference
      <3>3. QED
        BY <3>2, FS_CardinalityType
    <2>7. Cardinality(DOMAIN table \ seen) <= drops + Cardinality(made)
      <3> HIDE DEF made
      <3>1. QED
        BY <2>2, <2>4, <2>5, <2>6
    <2>8. QED
      BY <2>5, <2>7, KeysCardinality DEF Keys!KeysAccountedFor, Keys!Failed
  <1>2. QED
    BY <1>1, KeysInvariant, PTL

(* The table holds no more keys than clicks and lost calls can have made.  *)
LEMMA KeysTypes == KeysInv => Keys!TypeOK
  <1> SUFFICES ASSUME KeysInv
               PROVE  Keys!TypeOK
    OBVIOUS
  <1>1. /\ KeysShape /\ Len(table) + (IF Unserved THEN 1 ELSE 0) <= 1 + creates + drops
    BY DEF KeysInv
  <1>2. /\ Len(table) \in Nat /\ DOMAIN table = 1 .. Len(table)
        /\ Len(listed) \in Nat /\ DOMAIN listed = 1 .. Len(listed)
        /\ Len(calls) \in Nat
    BY <1>1, LenProperties DEF KeysShape
  <1>3. /\ creates \in Nat /\ creates <= MaxCreates /\ revokes \in Nat /\ revokes <= MaxRevokes
        /\ drops \in Nat /\ drops <= MaxDrops /\ Len(calls) <= creates + revokes
        /\ Len(listed) <= Len(table)
    BY <1>1, KeysConstants DEF KeysShape
  <1>4. Len(table) <= 1 + MaxCreates + MaxDrops /\ Len(calls) <= MaxCreates + MaxRevokes
    <2>1. Len(table) <= 1 + creates + drops
      BY <1>1, <1>2, <1>3
    <2>2. QED
      BY <1>2, <1>3, <2>1, KeysConstants
  <1>5. DOMAIN table \subseteq Keys!Keys /\ DOMAIN listed \subseteq DOMAIN table
    BY <1>2, <1>3, <1>4, KeysConstants DEF Keys!Keys
  <1>6. QED
    BY <1>1, <1>2, <1>4, <1>5 DEF KeysShape, Keys!TypeOK

(* ------------------------- the types of Platform ----------------------- *)

(* Whatever section is open, its variables have their types and keep to    *)
(* their bounds: the pages', billing's, the keys', the replay's, the       *)
(* limiter's, and the outcomes'.                                           *)
THEOREM EveryTypeHolds == Spec => []AllTypesOK
  <1>1. BillingInv => Account!TypeOK
    BY DEF BillingInv
  <1>2. ResultsInv => Results!TypeOK
    BY DEF ResultsInv
  <1>3. (/\ Live!TypeOK /\ Paper!TypeOK /\ Account!TypeOK /\ Keys!TypeOK
         /\ Engine!TypeOK /\ Limiter!TypeOK /\ Results!TypeOK) => AllTypesOK
    BY DEF AllTypesOK
  <1>4. QED
    BY <1>1, <1>2, <1>3, LiveTypes, PaperTypes, BillingInvariant, KeysInvariant, KeysTypes,
       ReplayInvariant, EngineTypes, LimiterInvariant, LimiterTypes, ResultsInvariant, PTL
=============================================================================
