------------------------- MODULE OrderContractProofs -------------------------
(***************************************************************************)
(* Theorems about OrderContract, for every size of doubles and of orders:  *)
(* money is exact, and the consumer understands the events of the API.     *)
(***************************************************************************)
EXTENDS OrderContract, SequenceTheorems, TLAPS

Valid == {i \in Items : ValidItem(i)}

(***************************************************************************)
(* The product and the sum of money are exact, or seen not to be money.    *)
(***************************************************************************)
LEMMA ProductIsExact ==
    ASSUME NEW i \in Valid
    PROVE  /\ i.unitPriceMinor * i.quantity \in Int
           /\ IF i.unitPriceMinor * i.quantity <= Safe
              THEN IsMoney(Product(i)) /\ Product(i) = i.unitPriceMinor * i.quantity
              ELSE ~IsMoney(Product(i))
<1>1. i.unitPriceMinor \in 0 .. Safe /\ i.quantity \in 1 .. MaxQuantity /\ Safe \in Nat
  BY ContractAssumption DEF Valid, ValidItem
<1>2. IsRounded(i.unitPriceMinor * i.quantity)
  BY <1>1, ContractAssumption
<1> DEFINE n == i.unitPriceMinor * i.quantity
<1>3. n \in Int
  BY <1>1
<1>4. Rounded(n) \in Nat /\ (IF n <= Safe THEN Rounded(n) = n ELSE Rounded(n) > Safe)
  BY <1>2 DEF IsRounded
<1> HIDE DEF n
<1>5. IF n <= Safe THEN Rounded(n) \in 0 .. Safe /\ Rounded(n) = n ELSE Rounded(n) \notin 0 .. Safe
  BY <1>1, <1>3, <1>4
<1> QED
  BY <1>3, <1>5 DEF n, IsMoney, Product

LEMMA TotalIsExact ==
    ASSUME NEW i \in Valid, sum \in 0 .. Safe
    PROVE  LET n == i.unitPriceMinor * i.quantity IN
           IF sum + n <= Safe
           THEN IsMoney(Product(i)) /\ IsMoney(Total(i)) /\ Total(i) = sum + n
           ELSE ~(IsMoney(Product(i)) /\ IsMoney(Total(i)))
<1> DEFINE n == i.unitPriceMinor * i.quantity
<1>1. Safe \in Nat /\ n \in Int
  BY ContractAssumption, ProductIsExact
<1>2. IF n <= Safe THEN IsMoney(Product(i)) /\ Product(i) = n ELSE ~IsMoney(Product(i))
  BY ProductIsExact
<1> HIDE DEF n
<1>3. CASE n <= Safe
  <2>1. n \in 0 .. Safe
    BY <1>2, <1>3 DEF IsMoney
  <2>2. IsRounded(sum + n)
    BY <2>1, ContractAssumption
  <2>3. Total(i) = Rounded(sum + n)
    BY <1>2, <1>3 DEF Total
  <2>4. IF sum + n <= Safe THEN Total(i) \in 0 .. Safe /\ Total(i) = sum + n ELSE Total(i) \notin 0 .. Safe
    BY <1>1, <2>1, <2>2, <2>3 DEF IsRounded
  <2> QED
    BY <1>2, <1>3, <2>4 DEF IsMoney, n
<1>4. CASE ~(n <= Safe)
  BY <1>1, <1>2, <1>4 DEF n
<1> QED
  BY <1>3, <1>4

-----------------------------------------------------------------------------
LEMMA InitInv == Init => ContractInv
<1> SUFFICES ASSUME Init PROVE ContractInv
  OBVIOUS
<1>1. SumIsMoney
  BY ContractAssumption DEF Init, SumIsMoney
<1>2. BodyIsChecked /\ RestIsChecked /\ NothingYet /\ OrderIsCreated
  BY DEF Init, BodyIsChecked, RestIsChecked, NothingYet, OrderIsCreated
<1>3. OnlyForeign
  BY DEF Init, OnlyForeign
<1> QED
  BY <1>1, <1>2, <1>3 DEF Init, ContractInv

(***************************************************************************)
(* A request that is refused leaves nothing behind.                        *)
(***************************************************************************)
LEMMA RefuseInv ==
    ASSUME ContractInv, stage \in {"received", "validated"}, Refuse("400")
    PROVE  ContractInv'
<1> USE DEF Refuse
<1>1. SumIsMoney'
  BY DEF ContractInv, SumIsMoney
<1>2. BodyIsChecked' /\ RestIsChecked' /\ NothingYet' /\ OrderIsCreated' /\ OnlyForeign'
  BY DEF ContractInv, BodyIsChecked, RestIsChecked, NothingYet, OrderIsCreated, OnlyForeign
<1> QED
  BY <1>1, <1>2 DEF ContractInv

LEMMA ValidateInv == ASSUME ContractInv, Validate PROVE ContractInv'
<1> USE DEF Validate
<1>1. SumIsMoney'
  BY DEF ContractInv, SumIsMoney
<1>2. BodyIsChecked' /\ RestIsChecked'
  BY DEF ContractInv, BodyIsChecked, RestIsChecked, DtoAccepts
<1>3. NothingYet' /\ OrderIsCreated' /\ OnlyForeign'
  BY DEF ContractInv, NothingYet, OrderIsCreated, OnlyForeign
<1> QED
  BY <1>1, <1>2, <1>3 DEF ContractInv

LEMMA CreateInv == ASSUME ContractInv, Create PROVE ContractInv'
<1> USE DEF Create
<1>1. SumIsMoney'
  BY DEF ContractInv, SumIsMoney
<1>2. BodyIsChecked'
  BY DEF ContractInv, BodyIsChecked, DtoAccepts, DomainAccepts, ValidItem
<1>3. RestIsChecked'
  <2>1. body.items \in Seq(Items) /\ \A i \in DOMAIN body.items : ValidItem(body.items[i])
    BY ContractAssumption DEF ContractInv, BodyIsChecked, DomainAccepts
  <2>2. \A i \in 1 .. Len(body.items) : body.items[i] \in {x \in Items : ValidItem(x)}
    BY <2>1
  <2>3. body.items \in Seq({x \in Items : ValidItem(x)})
    BY <2>1, <2>2
  <2> QED
    BY <2>3 DEF RestIsChecked, ValidItem
<1>4. NothingYet' /\ OrderIsCreated' /\ OnlyForeign'
  BY DEF ContractInv, NothingYet, OrderIsCreated, OnlyForeign
<1> QED
  BY <1>1, <1>2, <1>3, <1>4 DEF ContractInv

LEMMA NextItemIsValid ==
    ASSUME ContractInv, stage = "adding", rest # <<>>
    PROVE  Head(rest) \in Valid /\ Tail(rest) \in Seq(Valid)
BY DEF ContractInv, RestIsChecked, Valid

LEMMA AddItemInv == ASSUME ContractInv, AddItem PROVE ContractInv'
<1> USE DEF AddItem
<1>1. Head(rest) \in Valid /\ Tail(rest) \in Seq(Valid)
  BY NextItemIsValid
<1>2. SumIsMoney'
  <2> DEFINE n == Head(rest).unitPriceMinor * Head(rest).quantity
  <2>1. sum \in 0 .. Safe /\ exact = sum /\ answer # "amount"
    BY DEF ContractInv, SumIsMoney
  <2>2. Total(Head(rest)) = sum + n /\ Total(Head(rest)) \in 0 .. Safe
    BY <1>1, <2>1, TotalIsExact DEF IsMoney
  <2> QED
    BY <2>1, <2>2 DEF SumIsMoney
<1>3. BodyIsChecked'
  BY DEF ContractInv, BodyIsChecked, DtoAccepts, DomainAccepts, ValidItem
<1>4. RestIsChecked'
  BY <1>1 DEF RestIsChecked, Valid, ValidItem
<1>5. NothingYet' /\ OrderIsCreated' /\ OnlyForeign'
  BY DEF ContractInv, NothingYet, OrderIsCreated, OnlyForeign
<1> QED
  BY <1>2, <1>3, <1>4, <1>5 DEF ContractInv

LEMMA RefuseAmountInv == ASSUME ContractInv, RefuseAmount PROVE ContractInv'
<1> USE DEF RefuseAmount
<1>1. Head(rest) \in Valid
  BY NextItemIsValid
<1>2. SumIsMoney'
  <2> DEFINE n == Head(rest).unitPriceMinor * Head(rest).quantity
  <2>1. sum \in 0 .. Safe /\ exact = sum
    BY DEF ContractInv, SumIsMoney
  <2>2. ~(sum + n <= Safe)
    BY <1>1, <2>1, TotalIsExact
  <2>3. Safe \in Nat /\ n \in Int
    BY <1>1, ContractAssumption, ProductIsExact
  <2>4. exact' = exact + n
    OBVIOUS
  <2> HIDE DEF n
  <2>5. exact' > Safe
    BY <2>1, <2>2, <2>3, <2>4
  <2> QED
    BY <2>1, <2>5 DEF SumIsMoney
<1>3. BodyIsChecked' /\ RestIsChecked' /\ NothingYet' /\ OrderIsCreated' /\ OnlyForeign'
  BY DEF ContractInv, BodyIsChecked, RestIsChecked, NothingYet, OrderIsCreated, OnlyForeign
<1> QED
  BY <1>2, <1>3 DEF ContractInv

LEMMA SaveInv == ASSUME ContractInv, Save PROVE ContractInv'
<1> USE DEF Save
<1>1. Trimmed(body.customerId) = "plain" /\ body.currency = "upper"
  <2>1. body.customerId \in Texts /\ DtoAccepts(body) /\ DomainAccepts(body)
    BY ContractAssumption DEF ContractInv, BodyIsChecked
  <2> QED
    BY <2>1 DEF DtoAccepts, DomainAccepts, Fits, Trimmed, Texts
<1>2. SumIsMoney'
  BY DEF ContractInv, SumIsMoney
<1>3. OrderIsCreated'
  <2>1. activity' = {} /\ event' = CreatedEvent(sum')
    BY <1>1 DEF ContractInv, NothingYet, CreatedEvent, Recorded
  <2>2. order' = {[customerId |-> "plain", currency |-> "upper",
                   totalAmountMinor |-> sum', version |-> 1]}
    BY <1>1
  <2> QED
    BY <2>1, <2>2 DEF OrderIsCreated
<1>4. BodyIsChecked' /\ RestIsChecked' /\ NothingYet' /\ OnlyForeign'
  BY DEF BodyIsChecked, RestIsChecked, NothingYet, OnlyForeign
<1> QED
  BY <1>2, <1>3, <1>4 DEF ContractInv

LEMMA ChangeInv == ASSUME ContractInv, Change PROVE ContractInv'
<1> USE DEF Change
<1>1. PICK o \in order : o.version = 1 /\ order' = {[o EXCEPT !.version = 2]}
  OBVIOUS
<1>2. SumIsMoney'
  BY DEF ContractInv, SumIsMoney
<1>3. o = [customerId |-> "plain", currency |-> "upper", totalAmountMinor |-> sum, version |-> 1]
  BY <1>1 DEF ContractInv, OrderIsCreated
<1>4. activity = {RowOf(sum)}
  BY <1>1 DEF ContractInv, OrderIsCreated
<1>5. order' = {[customerId |-> "plain", currency |-> "upper",
                 totalAmountMinor |-> sum', version |-> 2]}
  BY <1>1, <1>3
<1>6. OrderIsCreated'
  BY <1>4, <1>5 DEF OrderIsCreated, RowOf, Recorded, NoPayload
<1>7. BodyIsChecked' /\ RestIsChecked' /\ NothingYet' /\ OnlyForeign'
  BY <1>5 DEF BodyIsChecked, RestIsChecked, NothingYet, OnlyForeign
<1> QED
  BY <1>2, <1>6, <1>7 DEF ContractInv

LEMMA PublishInv == ASSUME ContractInv, Publish PROVE ContractInv'
<1> USE DEF Publish
<1>1. order # {} /\ order' = order
  BY DEF ContractInv, OnlyForeign
<1>2. SumIsMoney'
  BY DEF ContractInv, SumIsMoney
<1>3. OrderIsCreated'
  BY <1>1 DEF ContractInv, OrderIsCreated, EnvelopeOf, CreatedEvent, Recorded, RowOf
<1>4. BodyIsChecked' /\ RestIsChecked' /\ NothingYet' /\ OnlyForeign'
  BY <1>1 DEF BodyIsChecked, RestIsChecked, NothingYet, OnlyForeign
<1> QED
  BY <1>2, <1>3, <1>4 DEF ContractInv

-----------------------------------------------------------------------------
(***************************************************************************)
(* The consumer.                                                           *)
(***************************************************************************)
\* What the three ways to consume a record have in common.
Consumed(rows) ==
    /\ stage = "published" /\ stage' = "consumed"
    /\ activity' = activity \cup rows
    /\ order # {} => settled' /\ activity' = {RowOf(sum)}
    /\ UNCHANGED <<body, rest, sum, exact, answer, order, event>>

LEMMA ConsumesInv ==
    ASSUME ContractInv, NEW rows, Consumed(rows)
    PROVE  ContractInv'
<1> USE DEF Consumed
<1>1. SumIsMoney'
  BY DEF ContractInv, SumIsMoney
<1>2. OrderIsCreated'
  BY DEF ContractInv, OrderIsCreated, RowOf
<1>3. BodyIsChecked' /\ RestIsChecked' /\ NothingYet' /\ OnlyForeign'
  BY DEF BodyIsChecked, RestIsChecked, NothingYet, OnlyForeign
<1> QED
  BY <1>1, <1>2, <1>3 DEF ContractInv

(***************************************************************************)
(* The consumer understands the events of the API.                         *)
(***************************************************************************)
LEMMA OwnEvent ==
    ASSUME ContractInv, stage = "published", order # {}
    PROVE  /\ Decodes(event)
           /\ \/ event = CreatedEvent(sum) /\ activity = {}
              \/ event.eventType = "other" /\ activity = {RowOf(sum)}
<1>1. \/ event = CreatedEvent(sum) /\ activity = {}
      \/ event = Recorded("other", 2, NoPayload) /\ activity = {RowOf(sum)}
  BY DEF ContractInv, OrderIsCreated
<1> QED
  BY <1>1 DEF CreatedEvent, Recorded, NoPayload, Decodes

LEMMA CreatedEventFits ==
    ASSUME ContractInv, event = CreatedEvent(sum)
    PROVE  event.eventType = "created" /\ IsActivity(event) /\ FitsTable(event)
BY DEF ContractInv, SumIsMoney, CreatedEvent, Recorded, IsActivity, FitsTable

LEMMA IgnoreInv == ASSUME ContractInv, Ignore PROVE ContractInv'
<1>1. /\ stage = "published" /\ stage' = "consumed" /\ activity' = activity \cup {} /\ settled'
      /\ UNCHANGED <<body, rest, sum, exact, answer, order, event>>
  BY DEF Ignore, Consumes
<1>2. event.eventType # "created"
  BY DEF Ignore
<1>3. order # {} => activity' = {RowOf(sum)}
  BY <1>1, <1>2, OwnEvent, CreatedEventFits
<1>4. Consumed({})
  BY <1>1, <1>3 DEF Consumed
<1> QED
  BY <1>4, ConsumesInv

LEMMA ProjectInv == ASSUME ContractInv, Project PROVE ContractInv'
<1> DEFINE row == [customerId |-> event.payload.customerId, currency |-> event.payload.currency,
                   totalAmountMinor |-> event.payload.totalAmountMinor]
<1>1. /\ stage = "published" /\ stage' = "consumed" /\ activity' = activity \cup {row} /\ settled'
      /\ UNCHANGED <<body, rest, sum, exact, answer, order, event>>
  BY DEF Project, Consumes
<1>2. event.eventType = "created"
  BY DEF Project
<1>4. order # {} => activity' = {RowOf(sum)}
  <2> SUFFICES ASSUME order # {} PROVE activity' = {RowOf(sum)}
    OBVIOUS
  <2>1. event = CreatedEvent(sum) /\ activity = {}
    BY <1>1, <1>2, OwnEvent
  <2>2. row = RowOf(sum)
    BY <2>1 DEF CreatedEvent, Recorded, RowOf
  <2> QED
    BY <1>1, <2>1, <2>2
<1> HIDE DEF row
<1>5. Consumed({row})
  BY <1>1, <1>4 DEF Consumed
<1> QED
  BY <1>5, ConsumesInv

LEMMA ThrowInv == ASSUME ContractInv, Throw PROVE ContractInv'
<1>1. /\ stage = "published" /\ stage' = "consumed" /\ activity' = activity \cup {}
      /\ UNCHANGED <<body, rest, sum, exact, answer, order, event>>
  BY DEF Throw, Consumes
<1>2. order = {}
  BY <1>1, OwnEvent, CreatedEventFits DEF Throw
<1>3. Consumed({})
  BY <1>1, <1>2 DEF Consumed
<1> QED
  BY <1>3, ConsumesInv

-----------------------------------------------------------------------------
(***************************************************************************)
(* The inductive invariant of the way of an order.                         *)
(***************************************************************************)
THEOREM Inductive == Spec => []ContractInv
<1>1. Init => ContractInv
  BY InitInv
<1>2. ContractInv /\ [Next]_vars => ContractInv'
  <2> SUFFICES ASSUME ContractInv, [Next]_vars PROVE ContractInv'
    OBVIOUS
  <2>1. CASE UNCHANGED vars
    <3>1. UNCHANGED <<SumIsMoney, NothingYet, OnlyForeign>>
      BY <2>1 DEF vars, SumIsMoney, NothingYet, OnlyForeign
    <3>2. OrderIsCreated'
      BY <2>1 DEF vars, ContractInv, OrderIsCreated, RowOf, CreatedEvent, Recorded, NoPayload
    <3>3. BodyIsChecked' /\ RestIsChecked'
      BY <2>1 DEF vars, ContractInv, BodyIsChecked, RestIsChecked, DtoAccepts, DomainAccepts, ValidItem
    <3> QED
      BY <2>1, <3>1, <3>2, <3>3 DEF vars, ContractInv
  <2>2. CASE Validate \/ RefuseBody \/ Create \/ RefuseOrder
    BY <2>2, ValidateInv, CreateInv, RefuseInv DEF RefuseBody, RefuseOrder
  <2>3. CASE AddItem \/ RefuseAmount \/ Save \/ Change \/ Publish
    BY <2>3, AddItemInv, RefuseAmountInv, SaveInv, ChangeInv, PublishInv
  <2>4. CASE Ignore \/ Project \/ Throw
    BY <2>4, IgnoreInv, ProjectInv, ThrowInv
  <2> QED
    BY <2>1, <2>2, <2>3, <2>4 DEF Next
<1> QED
  BY <1>1, <1>2, PTL DEF Spec

(***************************************************************************)
(* Whatever prices, quantities and numbers of items: the total of an order *)
(* is exact, and refused only if it is too large to be.                    *)
(***************************************************************************)
THEOREM ExactMoney == Spec => []MoneyIsExact
<1>1. ContractInv => MoneyIsExact
  <2> SUFFICES ASSUME ContractInv PROVE MoneyIsExact
    OBVIOUS
  <2>1. answer = "amount" => exact > Safe
    BY DEF ContractInv, SumIsMoney
  <2>2. ASSUME NEW o \in order PROVE o.totalAmountMinor = exact /\ exact <= Safe
    <3>1. answer # "amount"
      BY DEF ContractInv, SumIsMoney, NothingYet
    <3>2. exact = sum /\ sum \in 0 .. Safe
      BY <3>1 DEF ContractInv, SumIsMoney
    <3>3. o.totalAmountMinor = sum
      BY DEF ContractInv, OrderIsCreated
    <3> QED
      BY <3>2, <3>3, ContractAssumption
  <2> QED
    BY <2>1, <2>2 DEF MoneyIsExact
<1> QED
  BY <1>1, Inductive, PTL

(***************************************************************************)
(* Producer and consumer agree about every order and every event.          *)
(***************************************************************************)
THEOREM ContractHolds == Spec => []OwnEventsAreUnderstood
<1>1. ContractInv => OwnEventsAreUnderstood
  <2> SUFFICES ASSUME ContractInv, stage = "consumed", order # {}
               PROVE  settled /\ activity = {[customerId |-> o.customerId, currency |-> o.currency,
                                  totalAmountMinor |-> o.totalAmountMinor] : o \in order}
    BY DEF OwnEventsAreUnderstood
  <2>1. PICK v \in {1, 2} : order = {[customerId |-> "plain", currency |-> "upper",
                                      totalAmountMinor |-> sum, version |-> v]}
    BY DEF ContractInv, OrderIsCreated
  <2>2. settled /\ activity = {RowOf(sum)}
    BY DEF ContractInv, OrderIsCreated
  <2> QED
    BY <2>1, <2>2 DEF RowOf
<1> QED
  BY <1>1, Inductive, PTL

=============================================================================
