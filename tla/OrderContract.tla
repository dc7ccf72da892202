---------------------------- MODULE OrderContract ----------------------------
(***************************************************************************)
(* What becomes of the data of an order on its way: the body of a request, *)
(* the checks of the pipe and of the domain, the total that Money adds up  *)
(* in doubles, the rows of PostgreSQL, the envelope in the topic, what the *)
(* consumer makes of it and the row of its table.  Records of other        *)
(* producers of the topic come the last part of that way too.              *)
(*                                                                         *)
(* A text is its class under the checks: "padded" is plain text between    *)
(* spaces, "long" has too many characters for its column.  Ids and times   *)
(* are classes as well.  An amount is a number.                            *)
(*                                                                         *)
(* "Mistake" operators are bugs for the properties to notice, as in        *)
(* OutboxRelay.                                                            *)
(***************************************************************************)
EXTENDS Integers, Sequences

CONSTANTS
    Safe,          \* Number.MAX_SAFE_INTEGER
    MaxQuantity,   \* MAX_ORDER_ITEM_QUANTITY
    Rounded(_),    \* the double next to a natural number
    Bodies,        \* bodies of requests to create an order
    Foreign        \* records of other producers

Texts == {"empty", "blank", "padded", "plain", "long"}

Currencies == {"upper", "lower", "short"}

Items == [sku : Texts, quantity : Int, unitPriceMinor : Int]

(***************************************************************************)
(* Doubles hold the natural numbers up to Safe, and round no larger number *)
(* to one of them.                                                         *)
(***************************************************************************)
IsRounded(n) ==
    /\ Rounded(n) \in Nat
    /\ IF n <= Safe THEN Rounded(n) = n ELSE Rounded(n) > Safe

ASSUME ContractAssumption ==
    /\ Safe \in Nat /\ MaxQuantity \in Nat
    /\ \A a \in 0 .. Safe, q \in 1 .. MaxQuantity : IsRounded(a * q)
    /\ \A a, b \in 0 .. Safe : IsRounded(a + b)
    /\ \A body \in Bodies :
          /\ body.customerId \in Texts /\ body.currency \in Currencies
          /\ body.items \in Seq(Items)

(***************************************************************************)
(* JSON values.  A field that is missing or of another type is "missing",  *)
(* an amount that is not a safe integer is -1; the value null and what is  *)
(* not JSON at all fail like an envelope that misses everything.           *)
(***************************************************************************)
Payloads ==
    [kind : {"object", "scalar", "missing"}, customerId : Texts \cup {"missing"},
     currency : Currencies \cup {"missing"}, totalAmountMinor : Int]

NoPayload ==
    [kind |-> "object", customerId |-> "missing", currency |-> "missing", totalAmountMinor |-> -1]

Envelopes ==
    [eventId : {"uuid", "text", "missing"}, eventType : {"created", "other", "missing"},
     aggregateType : {"order", "other", "missing"}, aggregateId : {"uuid", "text", "missing"},
     aggregateVersion : Int, occurredAt : {"time", "text", "missing"}, payload : Payloads]

ASSUME ForeignAssumption == Foreign \subseteq Envelopes

VARIABLES
    stage,     \* how far the data have come
    body,      \* the body of the request
    rest,      \* the items Order.create has still to add
    sum,       \* Money: their total so far
    exact,     \* history: the same total in exact arithmetic
    answer,    \* of the API: "none", "201", "400" or "amount", a 400 for the amount
    order,     \* the row of orders, {} or a singleton
    event,     \* the row of outbox_events that is to be published, or the record
    activity,  \* the rows of order_activity
    settled    \* did the consumer acknowledge the last record?

vars == <<stage, body, rest, sum, exact, answer, order, event, activity, settled>>

NoBody == [customerId |-> "empty", currency |-> "short", items |-> <<>>]

NoEnvelope ==
    [eventId |-> "missing", eventType |-> "missing", aggregateType |-> "missing",
     aggregateId |-> "missing", aggregateVersion |-> -1, occurredAt |-> "missing",
     payload |-> [NoPayload EXCEPT !.kind = "missing"]]

Init ==
    /\ \/ stage = "received" /\ body \in Bodies /\ event = NoEnvelope
       \/ stage = "published" /\ body = NoBody /\ event \in Foreign
    /\ rest = <<>> /\ sum = 0 /\ exact = 0
    /\ answer = "none" /\ order = {} /\ activity = {} /\ settled = FALSE

-----------------------------------------------------------------------------
(* The API.                                                                *)

Fits(text) == text \notin {"empty", "long"}

Trimmed(text) ==
    CASE text = "blank" -> "empty" [] text = "padded" -> "plain" [] OTHER -> text

\* The decorators of the DTOs.
DtoAccepts(b) ==
    /\ Fits(b.customerId) /\ b.currency # "short" /\ b.items # <<>>
    /\ \A i \in DOMAIN b.items :
          /\ Fits(b.items[i].sku)
          /\ b.items[i].quantity \in 1 .. MaxQuantity
          /\ b.items[i].unitPriceMinor \in 0 .. Safe

\* validateItem
ValidItem(item) ==
    /\ Fits(Trimmed(item.sku))
    /\ item.quantity \in 1 .. MaxQuantity
    /\ item.unitPriceMinor \in 0 .. Safe

DomainAcceptsMistakeNoTrim(b) ==
    /\ b.customerId # "empty" /\ b.currency = "upper" /\ b.items # <<>>
    /\ \A i \in DOMAIN b.items : ValidItem(b.items[i])

\* Order.create before it adds; the start value of the sum checks the currency.
DomainAccepts(b) ==
    /\ Trimmed(b.customerId) # "empty" /\ b.currency = "upper" /\ b.items # <<>>
    /\ \A i \in DOMAIN b.items : ValidItem(b.items[i])

Refuse(why) ==
    /\ stage' = "ended" /\ answer' = why
    /\ UNCHANGED <<body, rest, sum, exact, order, event, activity, settled>>

Validate ==
    /\ stage = "received" /\ DtoAccepts(body)
    /\ stage' = "validated"
    /\ UNCHANGED <<body, rest, sum, exact, answer, order, event, activity, settled>>

RefuseBody == stage = "received" /\ ~DtoAccepts(body) /\ Refuse("400")

Create ==
    /\ stage = "validated" /\ DomainAccepts(body)
    /\ stage' = "adding" /\ rest' = body.items
    /\ UNCHANGED <<body, sum, exact, answer, order, event, activity, settled>>

RefuseOrder == stage = "validated" /\ ~DomainAccepts(body) /\ Refuse("400")

IsMoneyMistakeAnyInteger(amount) == amount <= Safe + 1

\* Money.of
IsMoney(amount) == amount \in 0 .. Safe

\* Money.multiply and Money.add
Product(item) == Rounded(item.unitPriceMinor * item.quantity)

Total(item) == Rounded(sum + Product(item))

AddItem ==
    /\ stage = "adding" /\ rest # <<>>
    /\ IsMoney(Product(Head(rest))) /\ IsMoney(Total(Head(rest)))
    /\ rest' = Tail(rest)
    /\ sum' = Total(Head(rest))
    /\ exact' = exact + Head(rest).unitPriceMinor * Head(rest).quantity
    /\ UNCHANGED <<stage, body, answer, order, event, activity, settled>>

RefuseAmount ==
    /\ stage = "adding" /\ rest # <<>>
    /\ ~(IsMoney(Product(Head(rest))) /\ IsMoney(Total(Head(rest))))
    /\ stage' = "ended" /\ answer' = "amount"
    /\ exact' = exact + Head(rest).unitPriceMinor * Head(rest).quantity
    /\ UNCHANGED <<body, rest, sum, order, event, activity, settled>>

Recorded(type, version, payload) ==
    [eventId |-> "uuid", eventType |-> type, aggregateType |-> "order", aggregateId |-> "uuid",
     aggregateVersion |-> version, occurredAt |-> "time", payload |-> payload]

(***************************************************************************)
(* save: order, items and event in one transaction, and the answer.  All   *)
(* columns take what the checks have let pass.                             *)
(***************************************************************************)
Save ==
    /\ stage = "adding" /\ rest = <<>>
    /\ stage' = "saved" /\ answer' = "201"
    /\ order' = {[customerId |-> Trimmed(body.customerId), currency |-> body.currency,
                  totalAmountMinor |-> sum, version |-> 1]}
    /\ event' = Recorded("created", 1,
                    [kind |-> "object", customerId |-> Trimmed(body.customerId),
                     currency |-> body.currency, totalAmountMinor |-> sum])
    /\ UNCHANGED <<body, rest, sum, exact, activity, settled>>

(***************************************************************************)
(* confirm or cancel, once: an event without the data of the order.        *)
(***************************************************************************)
Change ==
    /\ stage = "consumed"
    /\ \E o \in order :
          /\ o.version = 1
          /\ order' = {[o EXCEPT !.version = 2]}
    /\ event' = Recorded("other", 2, NoPayload)
    /\ stage' = "saved"
    /\ UNCHANGED <<body, rest, sum, exact, answer, activity, settled>>

-----------------------------------------------------------------------------
(* Worker and consumer.                                                    *)

\* toEnvelope, JSON.stringify
EnvelopeOf(e) ==
    [eventId |-> e.eventId, eventType |-> e.eventType, aggregateType |-> e.aggregateType,
     aggregateId |-> e.aggregateId, aggregateVersion |-> e.aggregateVersion,
     occurredAt |-> e.occurredAt, payload |-> e.payload]

Publish ==
    /\ stage = "saved"
    /\ stage' = "published"
    /\ event' = EnvelopeOf(event)
    /\ UNCHANGED <<body, rest, sum, exact, answer, order, activity, settled>>

\* decodeIntegrationEvent
Decodes(e) ==
    /\ "missing" \notin {e.eventId, e.eventType, e.aggregateType, e.aggregateId, e.occurredAt}
    /\ e.aggregateVersion # -1
    /\ e.payload.kind # "missing"

\* toOrderActivity, of a created order.  A blank customer of another producer passes.
IsActivity(e) ==
    /\ e.aggregateType = "order" /\ e.payload.kind = "object"
    /\ e.payload.customerId \notin {"missing", "empty"}
    /\ e.payload.currency = "upper"
    /\ e.payload.totalAmountMinor \in 0 .. Safe
    /\ e.occurredAt = "time"

\* The columns of order_activity.
FitsTable(e) == e.eventId = "uuid" /\ e.aggregateId = "uuid" /\ e.payload.customerId # "long"

Consumes(rows, acknowledges) ==
    /\ stage = "published"
    /\ stage' = "consumed" /\ activity' = activity \cup rows /\ settled' = acknowledges
    /\ UNCHANGED <<body, rest, sum, exact, answer, order, event>>

Ignore == Decodes(event) /\ event.eventType # "created" /\ Consumes({}, TRUE)

Project ==
    /\ Decodes(event) /\ event.eventType = "created"
    /\ IsActivity(event) /\ FitsTable(event)
    /\ Consumes({[customerId |-> event.payload.customerId, currency |-> event.payload.currency,
                  totalAmountMinor |-> event.payload.totalAmountMinor]}, TRUE)

(***************************************************************************)
(* Decoder, toOrderActivity or the insert throws.                          *)
(***************************************************************************)
Throw ==
    /\ \/ ~Decodes(event)
       \/ event.eventType = "created" /\ ~(IsActivity(event) /\ FitsTable(event))
    /\ Consumes({}, FALSE)

Next ==
    \/ Validate \/ RefuseBody \/ Create \/ RefuseOrder \/ AddItem \/ RefuseAmount \/ Save
    \/ Change \/ Publish \/ Ignore \/ Project \/ Throw

Spec == Init /\ [][Next]_vars

-----------------------------------------------------------------------------
(***************************************************************************)
(* Doubles decide about money as exact arithmetic would: the total of an   *)
(* order that is accepted is exact, and an order is refused for its amount *)
(* only when a total of it cannot be told exactly.                         *)
(***************************************************************************)
MoneyIsExact ==
    /\ \A o \in order : o.totalAmountMinor = exact /\ exact <= Safe
    /\ answer = "amount" => exact > Safe

(***************************************************************************)
(* The consumer understands the API: it settles every event of an accepted *)
(* order, and its row says of the order what the row of the order says.    *)
(***************************************************************************)
OwnEventsAreUnderstood ==
    (stage = "consumed" /\ order # {}) =>
        /\ settled
        /\ activity = {[customerId |-> o.customerId, currency |-> o.currency,
                        totalAmountMinor |-> o.totalAmountMinor] : o \in order}

-----------------------------------------------------------------------------
(* The inductive invariant (module OrderContractProofs).                   *)

\* What the row of order_activity says of an order.
RowOf(total) == [customerId |-> "plain", currency |-> "upper", totalAmountMinor |-> total]

CreatedEvent(total) ==
    Recorded("created", 1, [kind |-> "object", customerId |-> "plain", currency |-> "upper",
                            totalAmountMinor |-> total])

\* Sums are money, and exact until an order is refused for its amount.
SumIsMoney ==
    /\ sum \in 0 .. Safe
    /\ IF answer = "amount" THEN stage = "ended" /\ exact > Safe ELSE exact = sum

\* What has been checked so far.
BodyIsChecked ==
    /\ stage \in {"received", "validated", "adding"} => body \in Bodies
    /\ stage \in {"validated", "adding"} => DtoAccepts(body)
    /\ stage = "adding" => DomainAccepts(body)

RestIsChecked ==
    stage = "adding" => rest \in Seq({i \in Items : ValidItem(i)})

NothingYet ==
    stage \in {"received", "validated", "adding", "ended"} => order = {} /\ activity = {}

\* A created order, and its events on their way.
OrderIsCreated ==
    order # {} =>
        \E v \in {1, 2} :
            /\ order = {[customerId |-> "plain", currency |-> "upper",
                         totalAmountMinor |-> sum, version |-> v]}
            /\ stage \in {"saved", "published"} =>
                  IF v = 1 THEN event = CreatedEvent(sum) /\ activity = {}
                           ELSE event = Recorded("other", 2, NoPayload) /\ activity = {RowOf(sum)}
            /\ stage = "consumed" => settled /\ activity = {RowOf(sum)}

\* Without an order there is only a record of another producer.
OnlyForeign ==
    (order = {} /\ stage \in {"saved", "published"}) =>
        stage = "published" /\ event \in Foreign /\ activity = {}

ContractInv ==
    /\ stage \in {"received", "validated", "adding", "saved", "published", "consumed", "ended"}
    /\ answer \in {"none", "201", "400", "amount"}
    /\ SumIsMoney /\ BodyIsChecked /\ RestIsChecked /\ NothingYet
    /\ OrderIsCreated /\ OnlyForeign

=============================================================================
