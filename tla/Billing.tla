------------------------------ MODULE Billing ------------------------------
(***************************************************************************)
(* One customer's subscriptions: the checkout and portal buttons, Stripe's *)
(* events, the webhook that turns them into a Supabase profile and into    *)
(* rows of the API's subscriptions table, and the two queries that read    *)
(* the tier back - the API's key lookup and the dashboard's plan card.     *)
(*                                                                         *)
(* Stripe delivers an event at least once and in no order.  The webhook    *)
(* answers 200 whatever happens, so Stripe repeats none for a failure.     *)
(***************************************************************************)
EXTENDS Naturals

CONSTANTS
    Null,
    Subs,          \* Stripe subscriptions the customer may ever take out
    Plan,          \* the tier each is bought for, or Null for a price not in config.ts
    MaxExtras      \* bound: renewals, changes of plan, repeated deliveries, failing calls

BillingAssumption ==
    /\ MaxExtras \in Nat
    /\ Null \notin Subs /\ Plan \in [Subs -> {Plan[s] : s \in Subs}] /\ \A s \in Subs : Plan[s] # "free"
    /\ Null \notin [tier : {Plan[s] : s \in Subs} \cup {"free"}, status : {"active", "canceled"}]

Prices == {Plan[s] : s \in Subs}

VARIABLES
    stripe,    \* at Stripe: "none", "open" checkout, "active" or "canceled"
    customer,  \* the Stripe customer each belongs to, named by its first one
    planAt,    \* the plan each has at Stripe now, by its tier
    pending,   \* events not delivered yet
    handlers,  \* deliveries being handled, with their next stage
    profile,   \* the Supabase profile
    rows,      \* the subscriptions table, by Stripe subscription
    repriced,  \* history: its plan has been changed at Stripe
    broken,    \* history: an event of the subscription came out of its order,
               \* or a call made for it failed
    extras

billingVars == <<stripe, customer, planAt, pending, handlers, profile, rows, repriced,
                 broken, extras>>

(* A checkout is of the price bought, an invoice of the price by then.     *)
Event(type, s) == [type |-> type, sub |-> s, price |-> Plan[s]]
Invoice(s) == [type |-> "invoice.paid", sub |-> s, price |-> planAt[s]]
Of(events, s) == {e \in events : e.sub = s}
Handling(s) == {h \in handlers : h.event.sub = s}

(* --------------------------- checkout, portal -------------------------- *)

(* A signed-in buyer who has a customer id at that moment buys under it,   *)
(* anybody else as a new customer.                                         *)
KnownCustomer(inSession) == IF inSession THEN profile.customer ELSE Null
CheckoutCustomer(s, known) == IF known # Null THEN known ELSE s

OpenCheckout(s, inSession) ==
    /\ stripe[s] = "none"
    /\ stripe' = [stripe EXCEPT ![s] = "open"]
    /\ customer' = [customer EXCEPT ![s] = CheckoutCustomer(s, KnownCustomer(inSession))]
    /\ UNCHANGED <<planAt, pending, handlers, profile, rows, repriced, broken, extras>>

(* Paying completes the checkout and settles the first invoice.            *)
Pay(s) ==
    /\ stripe[s] = "open"
    /\ stripe' = [stripe EXCEPT ![s] = "active"]
    /\ pending' = pending \cup {Event("checkout.session.completed", s), Invoice(s)}
    /\ UNCHANGED <<customer, planAt, handlers, profile, rows, repriced, broken, extras>>

Renew(s) ==
    /\ stripe[s] = "active" /\ extras < MaxExtras /\ extras' = extras + 1
    /\ Invoice(s) \notin pending \cup {h.event : h \in handlers}
    /\ pending' = pending \cup {Invoice(s)}
    /\ UNCHANGED <<stripe, customer, planAt, handlers, profile, rows, repriced, broken>>

(* Another plan for the same subscription, billed at once or with the next *)
(* invoice.  The webhook does nothing about "customer.subscription.updated"*)
(* and so that event is left out.                                          *)
ChangePlan(s, tier) ==
    /\ stripe[s] = "active" /\ tier # planAt[s] /\ extras < MaxExtras /\ extras' = extras + 1
    /\ planAt' = [planAt EXCEPT ![s] = tier]
    /\ repriced' = [repriced EXCEPT ![s] = TRUE]
    /\ \/ UNCHANGED pending
       \/ pending' = pending \cup {Invoice(s)'}
    /\ UNCHANGED <<stripe, customer, handlers, profile, rows, broken>>

Canceled(s) ==
    /\ stripe[s] = "active"
    /\ stripe' = [stripe EXCEPT ![s] = "canceled"]
    /\ pending' = pending \cup {Event("customer.subscription.deleted", s)}
    /\ UNCHANGED <<customer, planAt, handlers, profile, rows, repriced, broken, extras>>

(* The portal opens for the profile's customer, if it has one, and shows   *)
(* that customer's subscriptions only.                                     *)
InPortal == IF profile.customer = Null THEN {} ELSE {s \in Subs : customer[s] = profile.customer}
CancelInPortal(s) == s \in InPortal /\ Canceled(s)

(* Stripe gives up after failed payments ("invoice.payment_failed" itself  *)
(* changes nothing).                                                       *)
Lapse(s) == Canceled(s)

(* ------------------------------- webhook ------------------------------- *)

Ended(s) ==
    /\ stripe[s] = "canceled"
    /\ Event("customer.subscription.deleted", s) \notin pending

(* Out of order: a cancellation while other events of the subscription are *)
(* on their way, or one of them after the cancellation.                    *)
OutOfOrder(e) ==
    IF e.type = "customer.subscription.deleted"
    THEN Of(pending, e.sub) # {e} \/ Handling(e.sub) # {}
    ELSE Ended(e.sub)

Deliver(e) ==
    /\ e \in pending
    /\ \/ pending' = pending \ {e} /\ UNCHANGED extras
       \/ extras < MaxExtras /\ extras' = extras + 1 /\ UNCHANGED pending
    /\ \A h \in handlers : h.event # e
    /\ handlers' = handlers \cup {[event |-> e, stage |-> "profile"]}
    /\ broken' = [broken EXCEPT ![e.sub] = @ \/ OutOfOrder(e)]
    /\ UNCHANGED <<stripe, customer, planAt, profile, rows, repriced>>

Finish(h) == handlers' = handlers \ {h}
Continue(h) == handlers' = (handlers \ {h}) \cup {[h EXCEPT !.stage = "sync"]}

CheckoutCompleted_OncePerProfile(h, s) ==
    /\ h.event.type = "checkout.session.completed"
    /\ IF Plan[s] = Null \/ profile.access THEN Finish(h) /\ UNCHANGED profile
       ELSE /\ profile' = [customer |-> customer[s], price |-> s, access |-> TRUE]
            /\ Continue(h)

(* The profile of a completed checkout: the buyer's, or that of the e-mail *)
(* Stripe knows, which is created if need be.                              *)
CheckoutCompleted(h, s) ==
    /\ h.event.type = "checkout.session.completed"
    /\ IF Plan[s] = Null THEN Finish(h) /\ UNCHANGED profile
       ELSE /\ profile' = [customer |-> customer[s], price |-> s, access |-> TRUE]
            /\ Continue(h)

SubscriptionDeleted(h, s) ==
    /\ h.event.type = "customer.subscription.deleted"
    /\ profile' = IF profile.customer = customer[s] THEN [profile EXCEPT !.access = FALSE]
                  ELSE profile
    /\ Continue(h)

(* No profile has the customer yet (the handler trips over it) or the one  *)
(* it has bought last is of another price: nothing is done.                *)
InvoicePaid(h, s) ==
    /\ h.event.type = "invoice.paid"
    /\ IF profile.customer = customer[s] /\ Plan[profile.price] = h.event.price
       THEN profile' = [profile EXCEPT !.access = TRUE] /\ Continue(h)
       ELSE Finish(h) /\ UNCHANGED profile

HandleProfile(h) ==
    /\ h \in handlers /\ h.stage = "profile"
    /\ \/ CheckoutCompleted(h, h.event.sub)
       \/ SubscriptionDeleted(h, h.event.sub)
       \/ InvoicePaid(h, h.event.sub)
    /\ UNCHANGED <<stripe, customer, planAt, pending, rows, repriced, broken, extras>>

(* POST /v1/internal/sync-subscription: one row per Stripe subscription.   *)
(* The fetch may be sent twice after a socket error; a row takes it twice. *)
SyncedRow(e) ==
    IF e.type = "customer.subscription.deleted"
    THEN [tier |-> "free", status |-> "canceled"]
    ELSE [tier |-> e.price, status |-> "active"]

HandleSync(h) ==
    /\ h \in handlers /\ h.stage = "sync"
    /\ rows' = [rows EXCEPT ![h.event.sub] = SyncedRow(h.event)]
    /\ Finish(h)
    /\ UNCHANGED <<stripe, customer, planAt, pending, profile, repriced, broken, extras>>

(* A failing call to Stripe or the API is logged and ends the handling;    *)
(* the event is not delivered again for it.  A failing update of the       *)
(* profile is not even noticed.                                            *)
HandlerFails(h) ==
    /\ h \in handlers /\ extras < MaxExtras /\ extras' = extras + 1
    /\ \/ Finish(h)
       \/ h.stage = "profile" /\ h.event.type # "invoice.paid" /\ Continue(h)
    /\ broken' = [broken EXCEPT ![h.event.sub] = TRUE]
    /\ UNCHANGED <<stripe, customer, planAt, pending, profile, rows, repriced>>

(* ----------------------------- reading the tier ------------------------ *)

Rows == {s \in Subs : rows[s] # Null}
ActiveRows == {s \in Rows : rows[s].status = "active"}

(* The API's key lookup takes any one active row, the dashboard's plan     *)
(* card any one row; neither query orders them.  No row means free.        *)
Granted == IF ActiveRows = {} THEN {"free"} ELSE {rows[s].tier : s \in ActiveRows}
PlanCard == IF Rows = {} THEN {"free"} ELSE {rows[s].tier : s \in Rows}

(* ---------------------------- specification ---------------------------- *)

Init ==
    /\ stripe = [s \in Subs |-> "none"] /\ customer = [s \in Subs |-> Null]
    /\ planAt = Plan /\ repriced = [s \in Subs |-> FALSE]
    /\ pending = {} /\ handlers = {}
    /\ profile = [customer |-> Null, price |-> Null, access |-> FALSE]
    /\ rows = [s \in Subs |-> Null]
    /\ broken = [s \in Subs |-> FALSE] /\ extras = 0

DeliverAny == \E e \in pending : Deliver(e)
Handle == \E h \in handlers : HandleProfile(h) \/ HandleSync(h)

Next ==
    \/ \E s \in Subs : \/ (\E b \in BOOLEAN : OpenCheckout(s, b)) \/ Pay(s) \/ Renew(s)
                       \/ (\E tier \in Prices : ChangePlan(s, tier))
                       \/ CancelInPortal(s) \/ Lapse(s)
    \/ DeliverAny \/ Handle \/ \E h \in handlers : HandlerFails(h)

(* Stripe delivers what it has, and a handler runs on.                     *)
Fairness == WF_billingVars(DeliverAny) /\ WF_billingVars(Handle)

Spec == Init /\ [][Next]_billingVars /\ Fairness

(* ------------------------------ properties ----------------------------- *)

EventTypes == {"checkout.session.completed", "invoice.paid", "customer.subscription.deleted"}
Events == {e \in [type : EventTypes, sub : Subs, price : Prices] :
               e.type # "invoice.paid" => e.price = Plan[e.sub]}
PlanTiers == Prices \cup {"free"}

TypeOK ==
    /\ stripe \in [Subs -> {"none", "open", "active", "canceled"}]
    /\ customer \in [Subs -> Subs \cup {Null}]
    /\ planAt \in [Subs -> Prices] /\ repriced \in [Subs -> BOOLEAN]
    /\ pending \subseteq Events
    /\ handlers \subseteq [event : Events, stage : {"profile", "sync"}]
    /\ profile \in [customer : Subs \cup {Null}, price : Subs \cup {Null}, access : BOOLEAN]
    /\ rows \in [Subs -> [tier : PlanTiers, status : {"active", "canceled"}] \cup {Null}]
    /\ broken \in [Subs -> BOOLEAN] /\ extras \in 0..MaxExtras

Quiet(s) == Of(pending, s) = {} /\ Handling(s) = {}
Sound(s) == ~broken[s] /\ Plan[s] # Null

(* Once its events are handled, a subscription has an active row exactly   *)
(* while Stripe has it active - whatever the events of other subscriptions *)
(* did meanwhile, duplicates included - unless its own came out of order   *)
(* or a call was lost.  Its row has the tier it was bought for: of the only*)
(* one ever paid for, even after its plan was changed at Stripe, since the *)
(* update is dropped and an invoice at another price than the profile's is *)
(* passed over.  With no other row the API grants and the dashboard shows  *)
(* that tier, or free once the subscription is canceled.                   *)
OnlyPurchase(s) == \A t \in Subs \ {s} : stripe[t] \in {"none", "open"}
TierAsBought(s) ==
    /\ s \in ActiveRows <=> stripe[s] = "active"
    /\ s \in ActiveRows /\ (OnlyPurchase(s) \/ ~repriced[s]) => rows[s].tier = Plan[s]
    /\ Rows = {s} =>
          /\ Granted = IF stripe[s] = "active" THEN {rows[s].tier} ELSE {"free"}
          /\ PlanCard = Granted
TierFollowsPurchase == \A s \in Subs : Quiet(s) /\ Sound(s) => TierAsBought(s)

(* Who pays gets the tier: once the webhook comes to rest every active     *)
(* subscription has its row, unless a call was lost or its price is not in *)
(* config.ts.                                                              *)
Paid(s) == stripe[s] = "active" => (s \in ActiveRows \/ broken[s] \/ Plan[s] = Null)
AllPaid == \A s \in Subs : Paid(s)
=============================================================================
