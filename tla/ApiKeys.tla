------------------------------ MODULE ApiKeys ------------------------------
(***************************************************************************)
(* The API keys page: the list, the create form, and the one look at a     *)
(* fresh key's plaintext; under it the proxies of the dashboard, which     *)
(* send a call once more when the socket breaks, and the API's table.      *)
(*                                                                         *)
(* A key is its position in the table; the table holds whether it is live. *)
(***************************************************************************)
EXTENDS Naturals, Sequences, FiniteSets, SequencesExt

CONSTANTS
    Null,
    MaxCreates, MaxRevokes, \* bounds: clicks on the buttons
    MaxDrops                \* bound: calls or answers that are lost

KeysAssumption ==
    /\ MaxCreates \in Nat /\ MaxRevokes \in Nat /\ MaxDrops \in Nat
    /\ Null \notin Nat /\ Null \notin Seq(Nat)

VARIABLES
    known,    \* whether the API has a user for the session's e-mail
    table,    \* the API's keys, oldest first: whether each is live
    listed,   \* the list on the page
    creating, \* the create button is disabled
    fresh,    \* the key whose plaintext is on display, or Null
    calls,    \* calls of the page under way, in the order they were made
    seen,     \* history: keys whose plaintext reached the page
    swapped,  \* history: an answer was read before that of an earlier call
    creates, revokes, drops

keysVars == <<known, table, listed, creating, fresh, calls, seen, swapped,
              creates, revokes, drops>>

(* A call and its answer: a sequence of one value, or of none when it      *)
(* failed; `final` is whether it ends createKey, `resent` whether the      *)
(* proxy has sent it a second time.                                        *)
Failed == <<>>
Call(op, key, final) ==
    [op |-> op, key |-> key, final |-> final, resent |-> FALSE, answer |-> Null]
Lose == drops < MaxDrops /\ drops' = drops + 1

(* -------------------------------- page --------------------------------- *)

(* The form and its banner; the rows of the table, with a button to revoke *)
(* every key that says "active".                                           *)
CreateForm == [button |-> IF creating THEN "Creating" ELSE "Create key", banner |-> fresh]
KeyTable == [k \in DOMAIN listed |-> IF listed[k] THEN "active" ELSE "revoked"]
RevokeButtons == {k \in DOMAIN KeyTable : KeyTable[k] = "active"}

(* ------------------------------- buttons ------------------------------- *)

CreateKey_Unguarded ==
    /\ creates < MaxCreates /\ creates' = creates + 1
    /\ creating' = TRUE /\ fresh' = Null
    /\ calls' = Append(calls, Call("create", Null, FALSE))
    /\ UNCHANGED <<known, table, listed, seen, swapped, revokes, drops>>

CreateKey ==
    /\ CreateForm.button = "Create key" /\ creates < MaxCreates /\ creates' = creates + 1
    /\ creating' = TRUE /\ fresh' = Null
    /\ calls' = Append(calls, Call("create", Null, FALSE))
    /\ UNCHANGED <<known, table, listed, seen, swapped, revokes, drops>>

(* No button is disabled while its key is being revoked.                   *)
RevokeKey ==
    /\ revokes < MaxRevokes /\ revokes' = revokes + 1
    /\ \E k \in RevokeButtons : calls' = Append(calls, Call("revoke", k, FALSE))
    /\ UNCHANGED <<known, table, listed, creating, fresh, seen, swapped, creates, drops>>

Dismiss ==
    /\ CreateForm.banner # Null /\ fresh' = Null
    /\ UNCHANGED <<known, table, listed, creating, calls, seen, swapped,
                   creates, revokes, drops>>

(* ------------------------------ API, proxy ----------------------------- *)

(* What the API does with a call: the table after it, and the answer.  A   *)
(* key is minted for a user it knows; revoking a revoked one is an error.  *)
Served(c) ==
    CASE c.op = "refresh" -> [table |-> table, answer |-> <<table>>]
      [] c.op = "create"  -> IF known THEN [table |-> Append(table, TRUE),
                                            answer |-> <<Len(table) + 1>>]
                             ELSE [table |-> table, answer |-> Failed]
      [] c.op = "revoke"  -> IF table[c.key] THEN [table |-> [table EXCEPT ![c.key] = FALSE],
                                                   answer |-> <<c.key>>]
                             ELSE [table |-> table, answer |-> Failed]

(* The answer arrives; or the socket breaks after the API did its work, and*)
(* the proxy asks again; or the call fails for good, before or after it.   *)
Serve(i) ==
    /\ i \in DOMAIN calls /\ calls[i].answer = Null
    /\ LET s == Served(calls[i]) IN
       \/ /\ table' = s.table /\ calls' = [calls EXCEPT ![i].answer = s.answer]
          /\ UNCHANGED drops
       \/ /\ ~calls[i].resent /\ Lose
          /\ table' = s.table /\ calls' = [calls EXCEPT ![i].resent = TRUE]
       \/ /\ Lose
          /\ table' \in {table, s.table} /\ calls' = [calls EXCEPT ![i].answer = Failed]
    /\ UNCHANGED <<known, listed, creating, fresh, seen, swapped, creates, revokes>>

(* --------------------------- answers on the page ----------------------- *)

(* A failure is a toast, and the list is left as it was.  A success of     *)
(* either button refreshes the list; createKey waits for it.               *)
Receive(i) ==
    /\ i \in DOMAIN calls /\ calls[i].answer # Null
    /\ swapped' = (swapped \/ i > 1)
    /\ LET c    == calls[i]
           rest == RemoveAt(calls, i)
       IN
       IF c.answer = Failed
       THEN /\ calls' = rest /\ creating' = (creating /\ ~(c.final \/ c.op = "create"))
            /\ UNCHANGED <<listed, fresh, seen>>
       ELSE CASE c.op = "create"  ->
                   /\ fresh' = c.answer[1] /\ seen' = seen \cup {c.answer[1]}
                   /\ calls' = Append(rest, Call("refresh", Null, TRUE))
                   /\ UNCHANGED <<listed, creating>>
              [] c.op = "revoke"  ->
                   /\ calls' = Append(rest, Call("refresh", Null, FALSE))
                   /\ UNCHANGED <<listed, creating, fresh, seen>>
              [] c.op = "refresh" ->
                   /\ listed' = c.answer[1] /\ calls' = rest
                   /\ creating' = (creating /\ ~c.final)
                   /\ UNCHANGED <<fresh, seen>>
    /\ UNCHANGED <<known, table, creates, revokes, drops>>

(* ---------------------------- specification ---------------------------- *)

(* A first subscription creates the API's user (Billing).                  *)
Subscribed ==
    /\ ~known /\ known' = TRUE
    /\ UNCHANGED <<table, listed, creating, fresh, calls, seen, swapped,
                   creates, revokes, drops>>

(* The page comes with the keys, or with none when either of its two       *)
(* fetches, the keys' or the subscription's, failed.                       *)
Init ==
    /\ known \in BOOLEAN
    /\ table \in (IF known THEN {<<>>, <<TRUE>>} ELSE {<<>>})
    /\ \/ listed = table /\ drops = 0
       \/ listed = <<>> /\ table # <<>> /\ drops = 1 /\ drops <= MaxDrops
    /\ creating = FALSE /\ fresh = Null /\ calls = <<>>
    /\ seen = DOMAIN table /\ swapped = FALSE /\ creates = 0 /\ revokes = 0

Next ==
    \/ CreateKey \/ RevokeKey \/ Dismiss \/ Subscribed
    \/ \E i \in DOMAIN calls : Serve(i) \/ Receive(i)

(* The oldest call is answered, if only with a failure, and read.          *)
Fairness == WF_keysVars(Serve(1)) /\ WF_keysVars(Receive(1))

Spec == Init /\ [][Next]_keysVars /\ Fairness

(* ------------------------------ properties ----------------------------- *)

Keys == 1..(1 + MaxCreates + MaxDrops)
TypeOK ==
    /\ known \in BOOLEAN /\ creating \in BOOLEAN /\ swapped \in BOOLEAN
    /\ DOMAIN table \subseteq Keys /\ DOMAIN listed \subseteq DOMAIN table
    /\ fresh \in DOMAIN table \cup {Null} /\ seen \subseteq DOMAIN table
    /\ Len(calls) <= MaxCreates + MaxRevokes
    /\ creates \in 0..MaxCreates /\ revokes \in 0..MaxRevokes /\ drops \in 0..MaxDrops

(* The key on display is the newest there is, the page being the user's    *)
(* only one; and every key's plaintext has been shown to the user, except  *)
(* the one being created and one for each call that was lost.              *)
KeysAccountedFor ==
    /\ fresh # Null => fresh = Len(table)
    /\ Cardinality(DOMAIN table \ seen) <=
            drops + Cardinality({i \in DOMAIN calls : calls[i].op = "create"
                                                     /\ calls[i].answer \notin {Null, Failed}})

(* The button comes back, and the list ends up with what the table holds,  *)
(* every live key with its button to revoke it, unless answers were swapped*)
(* or lost.                                                                *)
Settled ==
    /\ CreateForm.button = "Create key"
    /\ swapped \/ drops > 0
       \/ /\ DOMAIN KeyTable = DOMAIN table
          /\ RevokeButtons = {k \in DOMAIN table : table[k]}
=============================================================================
