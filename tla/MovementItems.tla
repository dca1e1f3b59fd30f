------------------------------ MODULE MovementItems ------------------------------
(* The items of a contract's template movement in finance-api, the total of *)
(* the movement and the value of the contract, which both add up the items: *)
(* requests to POST and PUT an item, and to edit it through the contract.   *)
(* Every statement commits by itself: the transaction of an edit is empty,  *)
(* since none of its statements uses its client. DELETE of an item always   *)
(* fails (BaseRepository has no delete) and changes nothing.                *)
EXTENDS Naturals

CONSTANTS
  Items,     \* ids of rows of movement_items
  Requests,  \* requests, each of which writes one item, once
  Values     \* quantities and unit prices

ASSUME ZeroAssumption == 0 \in Values

Fields == {"quantity", "unit_price"}

(* A total_price is the pair of factors that it is the product of: two      *)
(* totals are the same only if they were computed from the same factors. A  *)
(* sum is the function of the totals that it adds up.                       *)
Amounts == [Fields -> Values]
Nothing == [f \in Fields |-> 0]

(* The body of a PUT: some of the fields, or none of them (a description).  *)
Bodies == UNION {[given -> Values] : given \in SUBSET Fields}

VARIABLES
  stored,      \* the items in the table
  columns,     \* their quantity and unit_price
  product,     \* their total_price
  total,       \* movements.total_items, and total_amount but for discounts
  value,       \* contracts_recurring.contract_value
  pc,          \* the await at which a request stands
  op,          \* "post", "put" or "edit"
  item,        \* the item it writes
  body,        \* what it was given, until it has written
  found,       \* existingItem: quantity and unit_price as read, until then
  sum,         \* what the request, or its statement, has added up
  overlapped,  \* history: items with two updates at the same time
  zeroed,      \* history: items whose last update gave a zero
  crossed,     \* history: "total" or "value" was added up before another
               \* request wrote an item, and written after
  left         \* history: "total" or "value" was left as it was

row == <<stored, columns, product>>
call == <<op, item, body, found>>
history == <<overlapped, zeroed, crossed, left>>
vars == <<row, total, value, pc, call, sum, history>>

Init ==
  /\ stored \in SUBSET Items
  /\ columns \in [Items -> Amounts]
  /\ \A i \in Items \ stored : columns[i] = Nothing
  /\ product = columns /\ total = columns /\ value = columns
  /\ pc = [r \in Requests |-> "idle"]
  /\ op = [r \in Requests |-> "none"]
  /\ item = [r \in Requests |-> "none"]
  /\ body = [r \in Requests |-> Nothing]
  /\ found = [r \in Requests |-> Nothing]
  /\ sum = [r \in Requests |-> [i \in Items |-> Nothing]]
  /\ overlapped = {} /\ zeroed = {} /\ crossed = {} /\ left = {}

Goto(r, step) == pc' = [pc EXCEPT ![r] = step]

(* The last write of a request: it answers, or the write raises although it *)
(* has taken effect, for the client gives up after 20 s and the server      *)
(* after 30 s (config/database.js:36-37).                                   *)
Ends(r) == Goto(r, "ok") \/ Goto(r, "error")

Totalling == {"sum1", "total1", "sum2", "total2"}
Valuing == {"add", "value"}
Working == {"write"} \cup Totalling \cup Valuing

(* A row is written: the sums that others hold are out of date.             *)
Cross(r) ==
  crossed' = crossed
    \cup {"total" : q \in {q \in Requests \ {r} : pc[q] \in {"total1", "total2"}}}
    \cup {"value" : q \in {q \in Requests \ {r} : pc[q] = "value"}}

----------------------------------------------------------------------------
(* Mutant: the insert was told to skip the total.                           *)
CreateSkipsTotal(r, i, a) ==
  /\ pc[r] = "idle" /\ i \notin stored
  /\ stored' = stored \cup {i}
  /\ columns' = [columns EXCEPT ![i] = a]
  /\ product' = [product EXCEPT ![i] = a]
  /\ op' = [op EXCEPT ![r] = "post"]
  /\ item' = [item EXCEPT ![r] = i]
  /\ Goto(r, "ok")
  /\ Cross(r)
  /\ left' = left \cup {"value"}
  /\ UNCHANGED <<total, value, body, found, sum, overlapped, zeroed>>

(* POST /movement-items. The product is computed and the row inserted; then *)
(* the total of the movement is brought up to date, once. The value of the  *)
(* contract is not.                                                         *)
Create(r, i, a) ==
  /\ pc[r] = "idle" /\ i \notin stored
  /\ stored' = stored \cup {i}
  /\ columns' = [columns EXCEPT ![i] = a]
  /\ product' = [product EXCEPT ![i] = a]
  /\ op' = [op EXCEPT ![r] = "post"]
  /\ item' = [item EXCEPT ![r] = i]
  /\ Goto(r, "sum2")
  /\ Cross(r)
  /\ left' = left \cup {"value"}
  /\ UNCHANGED <<total, value, body, found, sum, overlapped, zeroed>>

----------------------------------------------------------------------------
(* PUT /movement-items/:id, and PUT /contracts-recurring/:id/items/:item,   *)
(* which calls the same update and then sets the value of the contract.     *)

Read(r, i, how, given) ==
  /\ pc[r] = "idle"
  /\ op' = [op EXCEPT ![r] = how]
  /\ item' = [item EXCEPT ![r] = i]
  /\ body' = [body EXCEPT ![r] = given]
  /\ found' = [found EXCEPT ![r] = columns[i]]
  /\ Goto(r, "write")
  /\ overlapped' =
       IF \E q \in Requests : pc[q] = "write" /\ item[q] = i
         THEN overlapped \cup {i} ELSE overlapped
  /\ UNCHANGED <<row, total, value, sum, zeroed, crossed, left>>

(* Mutant: the item is not looked for.                                      *)
FindAny(r, i, how, given) == Read(r, i, how, given)

(* findById: an item that is not there ends the request.                    *)
Find(r, i, how, given) == i \in stored /\ Read(r, i, how, given)

(* The row gets the fields that were given.                                 *)
NewColumns(r) ==
  [f \in Fields |-> IF f \in DOMAIN body[r] THEN body[r][f]
                                            ELSE columns[item[r]][f]]

(* The product is taken of the fields given and the others as they were     *)
(* found, and a zero counts as not given. (data.quantity || existing...)    *)
Truthy(r) == {f \in DOMAIN body[r] : body[r][f] # 0}

(* Mutant: the product follows the quantity only.                           *)
NewProductOfQuantity(r) ==
  IF "quantity" \notin Truthy(r) THEN product[item[r]]
  ELSE [f \in Fields |-> IF f \in Truthy(r) THEN body[r][f] ELSE found[r][f]]

NewProduct(r) ==
  IF Truthy(r) = {} THEN product[item[r]]
  ELSE [f \in Fields |-> IF f \in Truthy(r) THEN body[r][f] ELSE found[r][f]]

Write(r) ==
  LET i == item[r]
  IN /\ pc[r] = "write"
     /\ columns' = [columns EXCEPT ![i] = NewColumns(r)]
     /\ product' = [product EXCEPT ![i] = NewProduct(r)]
     /\ Goto(r, "sum1")
     /\ zeroed' = IF Truthy(r) # DOMAIN body[r] THEN zeroed \cup {i}
                  ELSE IF Truthy(r) # {} THEN zeroed \ {i} ELSE zeroed
     /\ Cross(r)
     /\ left' = IF op[r] = "put" THEN left \cup {"value"} ELSE left
     /\ body' = [body EXCEPT ![r] = Nothing]
     /\ found' = [found EXCEPT ![r] = Nothing]
     /\ UNCHANGED <<stored, total, value, op, item, sum, overlapped>>

----------------------------------------------------------------------------
(* updateMovementTotal, which an update runs twice. Its subqueries see the  *)
(* items as they were when the statement began; the row of the movement is  *)
(* written when it gets there.                                              *)
Sum(r) ==
  /\ pc[r] \in {"sum1", "sum2"}
  /\ sum' = [sum EXCEPT ![r] = product]
  /\ Goto(r, IF pc[r] = "sum1" THEN "total1" ELSE "total2")
  /\ UNCHANGED <<row, total, value, call, history>>

(* Mutant: an edit sets the value to the total it has just computed.        *)
SetTotalAndGoOn(r) ==
  /\ pc[r] \in {"total1", "total2"}
  /\ total' = sum[r]
  /\ IF pc[r] = "total1" THEN Goto(r, "sum2")
     ELSE IF op[r] = "edit" THEN Goto(r, "value") ELSE Ends(r)
  /\ UNCHANGED <<row, value, call, sum, history>>

SetTotal(r) ==
  /\ pc[r] \in {"total1", "total2"}
  /\ total' = sum[r]
  /\ IF pc[r] = "total1" THEN Goto(r, "sum2")
     ELSE IF op[r] = "edit" THEN Goto(r, "add") ELSE Ends(r)
  /\ UNCHANGED <<row, value, call, sum, history>>

----------------------------------------------------------------------------
(* updateContractRecurringItem, after the update: the items are read and    *)
(* added up, and the sum becomes the value of the contract.                 *)
Add(r) ==
  /\ pc[r] = "add"
  /\ sum' = [sum EXCEPT ![r] = product]
  /\ Goto(r, "value")
  /\ UNCHANGED <<row, total, value, call, history>>

SetValue(r) ==
  /\ pc[r] = "value"
  /\ value' = sum[r]
  /\ Ends(r)
  /\ UNCHANGED <<row, total, call, sum, history>>

(* A statement fails, or the process is restarted. What was written before  *)
(* stays, whatever the ROLLBACK of an edit. A statement that raises without *)
(* having written is Fails alone; one that has written, at once or after    *)
(* the error, is its own step and then Fails.                               *)
Fails(r) ==
  /\ pc[r] \in Working
  /\ Goto(r, "error")
  /\ left' = left
       \cup (IF pc[r] \in Totalling THEN {"total"} ELSE {})
       \cup (IF pc[r] # "write" /\ op[r] = "edit" THEN {"value"} ELSE {})
  /\ UNCHANGED <<row, total, value, call, sum, overlapped, zeroed, crossed>>

----------------------------------------------------------------------------
Receive(r) ==
  \E i \in Items :
    \/ \E a \in Amounts : Create(r, i, a)
    \/ \E how \in {"put", "edit"}, given \in Bodies : Find(r, i, how, given)

Next ==
  \E r \in Requests :
    \/ Receive(r) \/ Write(r) \/ Sum(r) \/ SetTotal(r) \/ Add(r) \/ SetValue(r)
    \/ Fails(r)

Spec == Init /\ [][Next]_vars

----------------------------------------------------------------------------
(* Every variable keeps its type, and an item that is not stored has no     *)
(* amount.                                                                  *)
TypeOK ==
  /\ stored \subseteq Items
  /\ columns \in [Items -> Amounts] /\ product \in [Items -> Amounts]
  /\ \A i \in Items \ stored : columns[i] = Nothing /\ product[i] = Nothing
  /\ total \in [Items -> Amounts] /\ value \in [Items -> Amounts]
  /\ pc \in [Requests -> Working \cup {"idle", "ok", "error"}]
  /\ op \in [Requests -> {"none", "post", "put", "edit"}]
  /\ item \in [Requests -> Items \cup {"none"}]
  /\ body \in [Requests -> Bodies]
  /\ found \in [Requests -> Amounts]
  /\ sum \in [Requests -> [Items -> Amounts]]
  /\ overlapped \subseteq Items /\ zeroed \subseteq Items
  /\ crossed \subseteq {"total", "value"} /\ left \subseteq {"total", "value"}

(* The total_price of an item is the product of its own quantity and        *)
(* unit_price, whoever wrote them, unless two updates of the item           *)
(* overlapped, each of which multiplied what the other was replacing, or    *)
(* the last update gave a zero (movement-item.service.js:28-38).            *)
PriceIsProduct ==
  \A i \in Items : product[i] = columns[i] \/ i \in overlapped \cup zeroed

(* The total of the movement adds up the items as they are, through POSTs,  *)
(* PUTs and edits at once, or a request that has written an item is still   *)
(* to bring it up to date; but for failures, and for an item written while  *)
(* another statement was adding up (movement-item.repository.js:130-149).   *)
TotalFollows ==
  \/ total = product
  \/ \E r \in Requests : pc[r] \in Totalling
  \/ "total" \in crossed \cup left

(* While the template is changed through the contract only and nothing      *)
(* fails, the value that is billed adds up the items as they are, or an     *)
(* edit is still to set it; but for an item written while another edit had  *)
(* added up (contract-recurring.service.js:1225-1239).                      *)
ValueFollows ==
  \/ value = product
  \/ \E r \in Requests : op[r] = "edit" /\ pc[r] \in Totalling \cup Valuing
  \/ "value" \in crossed \cup left
=============================================================================
