-------------------------- MODULE MovementItems_proofs --------------------------
(* Proofs about MovementItems, for any items, requests and prices.          *)
EXTENDS MovementItems, TLAPS

----------------------------------------------------------------------------
(* A request that has begun has an item, which an update has found.         *)
Begun ==
  \A r \in Requests :
    /\ pc[r] # "idle" => item[r] \in Items
    /\ pc[r] = "write" => item[r] \in stored /\ op[r] \in {"put", "edit"}

(* What an update has found is still there, but for overlapping updates: it *)
(* alone is about to write the item.                                        *)
Fresh ==
  \A r \in Requests :
    pc[r] = "write" => found[r] = columns[item[r]] \/ item[r] \in overlapped

Alone ==
  \A r, q \in Requests :
    pc[r] = "write" /\ pc[q] = "write" /\ item[r] = item[q] =>
      r = q \/ item[r] \in overlapped

(* What a request has added up and not yet written is what there is.        *)
SumsStand ==
  /\ "total" \in crossed \/
       \A r \in Requests : pc[r] \in {"total1", "total2"} => sum[r] = product
  /\ "value" \in crossed \/
       \A r \in Requests : pc[r] = "value" => sum[r] = product

IInv == TypeOK /\ Begun

Steps(r) ==
  \/ Receive(r) \/ Write(r) \/ Sum(r) \/ SetTotal(r) \/ Add(r) \/ SetValue(r)
  \/ Fails(r)

USE DEF Totalling, Valuing, Working, Goto, Ends

LEMMA NothingIsAmount == Nothing \in Amounts
BY ZeroAssumption DEF Nothing, Amounts

LEMMA NothingIsBody == Nothing \in Bodies
<1>1. Nothing \in [Fields -> Values]
  BY NothingIsAmount DEF Amounts
<1> QED BY <1>1 DEF Bodies

(* The state of the start.                                                  *)
LEMMA Start == Init => IInv
<1> SUFFICES ASSUME Init PROVE IInv
  OBVIOUS
<1>1. Nothing \in Bodies
  BY NothingIsBody
<1>2. TypeOK
  BY <1>1, NothingIsAmount DEF Init, TypeOK
<1> QED BY <1>2 DEF Init, Begun, IInv

(* The row that an update leaves.                                           *)
LEMMA NewRow ==
  ASSUME TypeOK, NEW r \in Requests, item[r] \in Items
  PROVE NewColumns(r) \in Amounts /\ NewProduct(r) \in Amounts
<1>1. PICK given \in SUBSET Fields : body[r] \in [given -> Values]
  BY DEF TypeOK, Bodies
<1>2. columns[item[r]] \in Amounts /\ product[item[r]] \in Amounts
  BY DEF TypeOK
<1>3. found[r] \in Amounts
  BY DEF TypeOK
<1>4. NewColumns(r) \in Amounts
  BY <1>1, <1>2 DEF NewColumns, Amounts
<1>5. NewProduct(r) \in Amounts
  BY <1>1, <1>2, <1>3 DEF NewProduct, Truthy, Amounts
<1> QED BY <1>4, <1>5

(* An update that gives no zero, and found the row as it is, leaves the     *)
(* product of the row.                                                      *)
LEMMA NewRowIsProduct ==
  ASSUME TypeOK, NEW r \in Requests, item[r] \in Items,
         found[r] = columns[item[r]],
         Truthy(r) = DOMAIN body[r]
  PROVE Truthy(r) # {} => NewProduct(r) = NewColumns(r)
BY DEF NewProduct, NewColumns

LEMMA NewRowUntouched ==
  ASSUME TypeOK, NEW r \in Requests, item[r] \in Items,
         Truthy(r) = {}, DOMAIN body[r] = {}
  PROVE NewProduct(r) = product[item[r]] /\ NewColumns(r) = columns[item[r]]
<1>1. columns[item[r]] = [f \in Fields |-> columns[item[r]][f]]
  BY DEF TypeOK, Amounts
<1> QED BY <1>1 DEF NewProduct, NewColumns

----------------------------------------------------------------------------
(* Types.                                                                   *)

LEMMA CrossTyped ==
  ASSUME TypeOK, NEW r \in Requests, Cross(r)
  PROVE crossed' \subseteq {"total", "value"}
BY DEF TypeOK, Cross

LEMMA CreateTyped ==
  ASSUME IInv, NEW r \in Requests, NEW i \in Items, NEW a \in Amounts, Create(r, i, a)
  PROVE IInv'
<1>1. crossed' \subseteq {"total", "value"}
  BY CrossTyped DEF Create, IInv
<1>2. TypeOK'
  BY <1>1 DEF IInv, TypeOK, Create
<1>3. Begun'
  BY DEF IInv, Begun, TypeOK, Create
<1> QED BY <1>2, <1>3 DEF IInv

LEMMA FindTyped ==
  ASSUME IInv, NEW r \in Requests, NEW i \in Items, NEW how \in {"put", "edit"},
         NEW given \in Bodies, Find(r, i, how, given)
  PROVE IInv'
<1>1. TypeOK'
  BY DEF IInv, TypeOK, Find, Read, row, history
<1>2. Begun'
  BY DEF IInv, Begun, TypeOK, Find, Read, row
<1> QED BY <1>1, <1>2 DEF IInv

LEMMA WriteTyped ==
  ASSUME IInv, NEW r \in Requests, Write(r)
  PROVE IInv'
<1>1. item[r] \in stored /\ item[r] \in Items
  BY DEF IInv, TypeOK, Begun, Write
<1>2. NewColumns(r) \in Amounts /\ NewProduct(r) \in Amounts
  BY <1>1, NewRow DEF IInv
<1>3. crossed' \subseteq {"total", "value"}
  BY CrossTyped DEF Write, IInv
<1>4. TypeOK'
  <2>1. body' \in [Requests -> Bodies] /\ found' \in [Requests -> Amounts]
    BY NothingIsBody, NothingIsAmount DEF IInv, TypeOK, Write
  <2>2. /\ columns' \in [Items -> Amounts] /\ product' \in [Items -> Amounts]
        /\ \A i \in Items \ stored :
             columns'[i] = Nothing /\ product'[i] = Nothing
    BY <1>1, <1>2 DEF IInv, TypeOK, Write
  <2>3. /\ pc' \in [Requests -> Working \cup {"idle", "ok", "error"}]
        /\ zeroed' \subseteq Items /\ left' \subseteq {"total", "value"}
    BY <1>1 DEF IInv, TypeOK, Write
  <2> QED BY <1>3, <2>1, <2>2, <2>3 DEF IInv, TypeOK, Write
<1>5. Begun'
  BY <1>1 DEF IInv, Begun, TypeOK, Write
<1> QED BY <1>4, <1>5 DEF IInv

(* The steps that write no item.                                            *)
Later(r) == Sum(r) \/ SetTotal(r) \/ Add(r) \/ SetValue(r) \/ Fails(r)

LEMMA LaterTyped ==
  ASSUME IInv, NEW r \in Requests, Later(r)
  PROVE IInv'
<1>1. CASE Sum(r)
  BY <1>1 DEF IInv, TypeOK, Begun, Sum, row, call, history
<1>2. CASE SetTotal(r)
  BY <1>2 DEF IInv, TypeOK, Begun, SetTotal, row, call, history
<1>3. CASE Add(r)
  BY <1>3 DEF IInv, TypeOK, Begun, Add, row, call, history
<1>4. CASE SetValue(r)
  BY <1>4 DEF IInv, TypeOK, Begun, SetValue, row, call, history
<1>5. CASE Fails(r)
  BY <1>5 DEF IInv, TypeOK, Begun, Fails, row, call
<1> QED BY <1>1, <1>2, <1>3, <1>4, <1>5 DEF Later

(* A step is the one of a request, which writes an item or does not.        *)
LEMMA StepCases ==
  ASSUME Next
  PROVE \E r \in Requests :
          \/ \E i \in Items, a \in Amounts : Create(r, i, a)
          \/ \E i \in Items, how \in {"put", "edit"}, given \in Bodies :
               Find(r, i, how, given)
          \/ Write(r)
          \/ Later(r)
BY DEF Next, Receive, Later

LEMMA Step == IInv /\ [Next]_vars => IInv'
<1> SUFFICES ASSUME IInv, [Next]_vars PROVE IInv'
  OBVIOUS
<1>1. CASE Next
  BY <1>1, StepCases, CreateTyped, FindTyped, WriteTyped, LaterTyped
<1>2. CASE UNCHANGED vars
  BY <1>2 DEF vars, row, call, history, IInv, TypeOK, Begun
<1> QED BY <1>1, <1>2

THEOREM Invariance == Spec => []IInv
BY Start, Step, PTL DEF Spec

(* Every variable keeps its type.                                           *)
THEOREM TypeCorrect == Spec => []TypeOK
<1>1. IInv => TypeOK
  BY DEF IInv
<1> QED BY <1>1, Invariance, PTL

----------------------------------------------------------------------------
(* The product of an item. The invariant says that an update which is about *)
(* to write has found the row as it still is.                               *)
Products == Fresh /\ Alone /\ PriceIsProduct

LEMMA ProductsStart == Init => Products
BY DEF Init, Products, Fresh, Alone, PriceIsProduct

LEMMA CreateKeepsProducts ==
  ASSUME IInv, Products, NEW r \in Requests, NEW i \in Items, NEW a \in Amounts,
         Create(r, i, a)
  PROVE Products'
<1>1. \A q \in Requests : pc'[q] = "write" =>
        pc[q] = "write" /\ item'[q] = item[q] /\ item[q] # i /\ item[q] \in Items
  BY DEF Create, IInv, Begun, TypeOK
<1>2. Fresh'
  BY <1>1 DEF Create, Products, Fresh, IInv, TypeOK
<1>3. Alone'
  BY <1>1 DEF Create, Products, Alone
<1>4. PriceIsProduct'
  BY DEF Create, Products, PriceIsProduct, IInv, TypeOK
<1> QED BY <1>2, <1>3, <1>4 DEF Products

LEMMA FindKeepsProducts ==
  ASSUME IInv, Products, NEW r \in Requests, NEW i \in Items,
         NEW how \in {"put", "edit"}, NEW given \in Bodies, Find(r, i, how, given)
  PROVE Products'
<1>1. /\ item'[r] = i /\ found'[r] = columns[i]
      /\ \A q \in Requests \ {r} :
           pc'[q] = pc[q] /\ item'[q] = item[q] /\ found'[q] = found[q]
      /\ columns' = columns /\ product' = product /\ zeroed' = zeroed
      /\ overlapped \subseteq overlapped'
      /\ \A q \in Requests : pc[q] = "write" /\ item[q] = i => i \in overlapped'
  BY DEF Find, Read, IInv, TypeOK, row
<1>2. Fresh'
  BY <1>1 DEF Products, Fresh
<1>3. Alone'
  BY <1>1 DEF Products, Alone
<1>4. PriceIsProduct'
  BY <1>1 DEF Products, PriceIsProduct
<1> QED BY <1>2, <1>3, <1>4 DEF Products

LEMMA WriteKeepsProducts ==
  ASSUME IInv, Products, NEW r \in Requests, Write(r)
  PROVE Products'
<1> DEFINE i == item[r]
<1>1. i \in Items /\ pc[r] = "write"
  BY DEF IInv, Begun, Write
<1>2. \A q \in Requests : pc'[q] = "write" =>
        pc[q] = "write" /\ q # r /\ (item[q] # i \/ i \in overlapped)
  BY <1>1 DEF Write, IInv, TypeOK, Products, Alone
<1>3. /\ item' = item /\ overlapped' = overlapped
      /\ \A q \in Requests \ {r} : found'[q] = found[q]
      /\ \A j \in Items \ {i} : columns'[j] = columns[j] /\ product'[j] = product[j]
      /\ \A j \in Items \ {i} : j \in zeroed <=> j \in zeroed'
      /\ columns'[i] = NewColumns(r) /\ product'[i] = NewProduct(r)
  BY <1>1 DEF Write, IInv, TypeOK
<1>4. Fresh'
  BY <1>2, <1>3 DEF Products, Fresh, IInv, Begun
<1>5. Alone'
  BY <1>2, <1>3 DEF Products, Alone
<1>6. product'[i] = columns'[i] \/ i \in overlapped' \cup zeroed'
  <2>1. CASE i \in overlapped
    BY <2>1, <1>3
  <2>2. CASE Truthy(r) # DOMAIN body[r]
    BY <2>2 DEF Write
  <2>3. CASE i \notin overlapped /\ Truthy(r) = DOMAIN body[r] /\ Truthy(r) # {}
    <3>1. found[r] = columns[i]
      BY <1>1, <2>3 DEF Products, Fresh
    <3>2. NewProduct(r) = NewColumns(r)
      BY <1>1, <2>3, <3>1, NewRowIsProduct DEF IInv
    <3> QED BY <3>2, <1>3
  <2>4. CASE i \notin overlapped /\ Truthy(r) = DOMAIN body[r] /\ Truthy(r) = {}
    <3>1. NewProduct(r) = product[i] /\ NewColumns(r) = columns[i]
      BY <1>1, <2>4, NewRowUntouched DEF IInv
    <3>2. zeroed' = zeroed
      BY <2>4 DEF Write
    <3> QED BY <1>1, <1>3, <3>1, <3>2 DEF Products, PriceIsProduct
  <2> QED BY <2>1, <2>2, <2>3, <2>4
<1>7. PriceIsProduct'
  BY <1>1, <1>3, <1>6 DEF Products, PriceIsProduct
<1> QED BY <1>4, <1>5, <1>7 DEF Products

LEMMA LaterKeepsProducts ==
  ASSUME IInv, Products, NEW r \in Requests, Later(r)
  PROVE Products'
<1>1. /\ UNCHANGED <<columns, product, item, found, overlapped, zeroed>>
      /\ \A q \in Requests : pc'[q] = "write" => pc[q] = "write"
  BY DEF Later, Sum, SetTotal, Add, SetValue, Fails, row, call, history, IInv, TypeOK
<1> QED BY <1>1 DEF Products, Fresh, Alone, PriceIsProduct

LEMMA ProductsStep == IInv /\ Products /\ [Next]_vars => Products'
<1> SUFFICES ASSUME IInv, Products, [Next]_vars PROVE Products'
  OBVIOUS
<1>1. CASE Next
  BY <1>1, StepCases, CreateKeepsProducts, FindKeepsProducts, WriteKeepsProducts,
     LaterKeepsProducts
<1>2. CASE UNCHANGED vars
  BY <1>2 DEF vars, row, call, history, Products, Fresh, Alone, PriceIsProduct
<1> QED BY <1>1, <1>2

(* The total_price of an item is the product of its quantity and price,     *)
(* but for overlapping updates and for zeros.                               *)
THEOREM ProductsHold == Spec => []PriceIsProduct
<1>1. Products => PriceIsProduct
  BY DEF Products
<1> QED BY <1>1, Invariance, ProductsStart, ProductsStep, PTL DEF Spec

----------------------------------------------------------------------------
(* The sums. The invariant says that a sum not yet written is the one of    *)
(* the items as they are, or was crossed.                                   *)
Sums == SumsStand /\ TotalFollows /\ ValueFollows

LEMMA SumsStart == Init => Sums
BY DEF Init, Sums, SumsStand, TotalFollows, ValueFollows

(* Whoever writes an item crosses the sums that the others hold, holds none *)
(* itself, and is to bring the total up to date; the value too, or it is    *)
(* left as it is.                                                           *)
LEMMA WritersKeepSums ==
  ASSUME IInv, Sums, NEW r \in Requests, Cross(r),
         pc' = [pc EXCEPT ![r] = "sum1"] \/ pc' = [pc EXCEPT ![r] = "sum2"],
         op'[r] = "edit" \/ "value" \in left',
         sum' = sum
  PROVE Sums'
<1>1. pc'[r] \in {"sum1", "sum2"} /\ \A q \in Requests \ {r} : pc'[q] = pc[q]
  BY DEF IInv, TypeOK
<1>2. /\ "total" \in crossed' \/
           \A q \in Requests \ {r} : pc[q] \notin {"total1", "total2"}
      /\ "value" \in crossed' \/ \A q \in Requests \ {r} : pc[q] # "value"
  BY DEF Cross
<1>3. SumsStand'
  BY <1>1, <1>2 DEF SumsStand
<1>4. TotalFollows'
  BY <1>1 DEF TotalFollows
<1>5. ValueFollows'
  BY <1>1 DEF ValueFollows
<1> QED BY <1>3, <1>4, <1>5 DEF Sums

LEMMA CreateKeepsSums ==
  ASSUME IInv, Sums, NEW r \in Requests, NEW i \in Items, NEW a \in Amounts,
         Create(r, i, a)
  PROVE Sums'
BY WritersKeepSums DEF Create

LEMMA WriteKeepsSums ==
  ASSUME IInv, Sums, NEW r \in Requests, Write(r)
  PROVE Sums'
<1>1. op'[r] = "edit" \/ "value" \in left'
  BY DEF Write, IInv, Begun, call
<1> QED BY <1>1, WritersKeepSums DEF Write

LEMMA FindKeepsSums ==
  ASSUME IInv, Sums, NEW r \in Requests, NEW i \in Items,
         NEW how \in {"put", "edit"}, NEW given \in Bodies, Find(r, i, how, given)
  PROVE Sums'
<1>1. /\ UNCHANGED <<product, total, value, sum, crossed, left>>
      /\ pc[r] = "idle" /\ pc'[r] = "write"
      /\ \A q \in Requests \ {r} : pc'[q] = pc[q] /\ op'[q] = op[q]
  BY DEF Find, Read, IInv, TypeOK, row
<1>2. SumsStand'
  BY <1>1 DEF Sums, SumsStand
<1>3. TotalFollows'
  BY <1>1 DEF Sums, TotalFollows
<1>4. ValueFollows'
  BY <1>1 DEF Sums, ValueFollows
<1> QED BY <1>2, <1>3, <1>4 DEF Sums

LEMMA AddingKeepsSums ==
  ASSUME IInv, Sums, NEW r \in Requests, Sum(r) \/ Add(r)
  PROVE Sums'
<1>1. UNCHANGED <<product, total, value, op, crossed, left>>
  BY DEF Sum, Add, row, call, history
<1>2. /\ sum'[r] = product
      /\ \A q \in Requests \ {r} : pc'[q] = pc[q] /\ sum'[q] = sum[q]
  BY DEF Sum, Add, IInv, TypeOK
<1>3. \/ pc[r] \in Totalling /\ pc'[r] \in Totalling
      \/ pc[r] = "add" /\ pc'[r] = "value"
  BY DEF Sum, Add, IInv, TypeOK
<1>4. SumsStand'
  BY <1>1, <1>2, <1>3 DEF Sums, SumsStand
<1>5. TotalFollows'
  BY <1>1, <1>2, <1>3 DEF Sums, TotalFollows
<1>6. ValueFollows'
  BY <1>1, <1>2, <1>3 DEF Sums, ValueFollows
<1> QED BY <1>4, <1>5, <1>6 DEF Sums

LEMMA SetTotalKeepsSums ==
  ASSUME IInv, Sums, NEW r \in Requests, SetTotal(r)
  PROVE Sums'
<1>1. /\ UNCHANGED <<product, value, op, sum, crossed, left>>
      /\ total' = sum[r]
      /\ pc[r] \in {"total1", "total2"}
      /\ pc'[r] \in {"sum2", "add", "ok", "error"}
      /\ op[r] = "edit" => pc'[r] \in {"sum2", "add"}
      /\ \A q \in Requests \ {r} : pc'[q] = pc[q]
  BY DEF SetTotal, IInv, TypeOK, row, call, history
<1>2. SumsStand'
  BY <1>1 DEF Sums, SumsStand
<1>3. TotalFollows'
  BY <1>1 DEF Sums, SumsStand, TotalFollows
<1>4. ValueFollows'
  BY <1>1 DEF Sums, ValueFollows
<1> QED BY <1>2, <1>3, <1>4 DEF Sums

LEMMA SetValueKeepsSums ==
  ASSUME IInv, Sums, NEW r \in Requests, SetValue(r)
  PROVE Sums'
<1>1. /\ UNCHANGED <<product, total, op, sum, crossed, left>>
      /\ value' = sum[r]
      /\ pc[r] = "value" /\ pc'[r] \in {"ok", "error"}
      /\ \A q \in Requests \ {r} : pc'[q] = pc[q]
  BY DEF SetValue, IInv, TypeOK, row, call, history
<1>2. SumsStand'
  BY <1>1 DEF Sums, SumsStand
<1>3. TotalFollows'
  BY <1>1 DEF Sums, TotalFollows
<1>4. ValueFollows'
  BY <1>1 DEF Sums, SumsStand, ValueFollows
<1> QED BY <1>2, <1>3, <1>4 DEF Sums

LEMMA FailureKeepsSums ==
  ASSUME IInv, Sums, NEW r \in Requests, Fails(r)
  PROVE Sums'
<1>1. /\ UNCHANGED <<product, total, value, op, sum, crossed>>
      /\ pc'[r] = "error"
      /\ \A q \in Requests \ {r} : pc'[q] = pc[q]
      /\ left \subseteq left'
      /\ pc[r] \in Totalling => "total" \in left'
      /\ pc[r] # "write" /\ op[r] = "edit" => "value" \in left'
  BY DEF Fails, IInv, TypeOK, row, call
<1>2. SumsStand'
  BY <1>1 DEF Sums, SumsStand
<1>3. TotalFollows'
  BY <1>1 DEF Sums, TotalFollows
<1>4. ValueFollows'
  BY <1>1 DEF Sums, ValueFollows
<1> QED BY <1>2, <1>3, <1>4 DEF Sums

LEMMA SumsStep == IInv /\ Sums /\ [Next]_vars => Sums'
<1> SUFFICES ASSUME IInv, Sums, [Next]_vars PROVE Sums'
  OBVIOUS
<1>1. CASE Next
  BY <1>1, StepCases, CreateKeepsSums, FindKeepsSums, WriteKeepsSums,
     AddingKeepsSums, SetTotalKeepsSums, SetValueKeepsSums, FailureKeepsSums
  DEF Later
<1>2. CASE UNCHANGED vars
  BY <1>2 DEF vars, row, call, history, Sums, SumsStand, TotalFollows, ValueFollows
<1> QED BY <1>1, <1>2

LEMMA SumsHold == Spec => []Sums
BY Invariance, SumsStart, SumsStep, PTL DEF Spec

(* The total of the movement adds up its items, or is about to.             *)
THEOREM TotalIsSum == Spec => []TotalFollows
<1>1. Sums => TotalFollows
  BY DEF Sums
<1> QED BY <1>1, SumsHold, PTL

(* The value of a contract that is changed by edits only adds up its items, *)
(* or is about to.                                                          *)
THEOREM ValueIsSum == Spec => []ValueFollows
<1>1. Sums => ValueFollows
  BY DEF Sums
<1> QED BY <1>1, SumsHold, PTL
=============================================================================
