------------------------------ MODULE Nfse_proofs ------------------------------
(* What is shown of a service invoice was true at the issuer, never goes    *)
(* back, has its event and is what an update was told; what a failed        *)
(* emission leaves behind; and who is to make the PDF of an authorised      *)
(* note. For any number of notes, requests and restarts.                    *)
EXTENDS Nfse, TLAPS

(* Wherever the inserts are expanded, so are their two halves.              *)
USE DEF FirstRows, SecondRows, Insert, InsertFirst, InsertAgain

(* Updates that have the issuer's answer.                                   *)
Asked == Updating \ {"remote"}

(* How far emissions and requests are, and what there is by then.           *)
Places ==
  /\ \A n \in Notes :
       /\ emission[n] = "idle" => remote[n] = "none"
       /\ emission[n] \in {"idle", "invoice"} => rows[n] = {}
       /\ "invoice" \notin rows[n] => invoice[n] = "none"
       /\ emission[n] \in Emitting \/ rows[n] # {} => remote[n] # "none"
  /\ \A r \in Requests :
       /\ pc[r] \in Updating => note[r] \in Notes /\ "invoice" \in rows[note[r]]
       /\ pc[r] = "pdf" \/ job[r] \in Working => note[r] \in Notes
       /\ pc[r] \in Asked => seen[r] \in Statuses

IInv == TypeOK /\ Places

(* No status here, or on its way here, is ahead of the issuer's.            *)
Ages ==
  /\ \A n \in Notes : Age[invoice[n]] <= Age[remote[n]]
  /\ \A r \in Requests :
       pc[r] \in Asked => Age[seen[r]] <= Age[remote[note[r]]]

(* Two updates of one note at the same time have been noted as overlapping. *)
Alone ==
  \A r, q \in Requests :
    r # q /\ pc[r] \in Updating /\ pc[q] \in Updating /\ note[r] = note[q]
      => note[r] \in overlapped

(* What an update alone on its note knows of the status it writes.          *)
Tracks ==
  \A r \in Requests : pc[r] \in Updating /\ note[r] \notin overlapped =>
    /\ pc[r] = "remote" => invoice[note[r]] = local[r]
    /\ pc[r] \in {"last", "invoice"} =>
         invoice[note[r]] = local[r] /\ Age[local[r]] <= Age[seen[r]]
    /\ pc[r] = "write" => Age[invoice[note[r]]] <= Age[seen[r]]
    /\ pc[r] \in {"notice", "event", "reread"} => invoice[note[r]] = seen[r]

LEMMA AgeFacts ==
  /\ Age \in [Statuses \cup {"none"} -> 0 .. 3]
  /\ Age["none"] = 0 /\ Age["processando"] = 1
  /\ Age["autorizada"] = 2 /\ Age["erro"] = 2 /\ Age["cancelada"] = 3
BY DEF Age, Statuses

----------------------------------------------------------------------------
(* Types and places.                                                        *)

LEMMA InitIInv == Init => IInv
<1> SUFFICES ASSUME Init PROVE IInv
  OBVIOUS
<1> USE DEF Init
<1>1. TypeOK
  BY RestartsAssumption DEF TypeOK, Statuses, Emitting, Updating, Working
<1>2. Places
  BY DEF Places, Emitting, Updating, Asked, AfterStatus, Working
<1> QED BY <1>1, <1>2 DEF IInv

LEMMA NextTypeOK == IInv /\ [Next]_vars => TypeOK'
<1> SUFFICES ASSUME IInv, [Next]_vars PROVE TypeOK'
  OBVIOUS
<1> USE DEF IInv, TypeOK
<1>1. ASSUME NEW n \in Notes, IssuerMoves(n) PROVE TypeOK'
  BY <1>1 DEF IssuerMoves, Statuses, record, call, history
<1>2. ASSUME NEW n \in Notes, Post(n) PROVE TypeOK'
  BY <1>2 DEF Post, Statuses, Emitting, record, call, history
<1>3. ASSUME NEW n \in Notes, InsertRow(n) PROVE TypeOK'
  <2>1. AfterInsert[emission[n]] \in Emitting \cup {"error"}
    BY <1>3 DEF InsertRow, AfterInsert, Emitting
  <2>2. rows' \in [Notes -> SUBSET Emitting]
    BY <1>3 DEF InsertRow
  <2>3. emission' \in [Notes -> Emitting \cup {"idle", "error"}]
    BY <1>3, <2>1 DEF InsertRow
  <2>4. invoice' \in [Notes -> Statuses \cup {"none"}]
    BY <1>3 DEF InsertRow, Statuses
  <2> QED BY <1>3, <2>2, <2>3, <2>4 DEF InsertRow, call, history
<1>4. ASSUME NEW n \in Notes, InsertFails(n) PROVE TypeOK'
  BY <1>4 DEF InsertFails, record, call, history
<1>5. ASSUME NEW n \in Notes, Delete(n) PROVE TypeOK'
  BY <1>5 DEF Delete, record, call, history
<1>6. ASSUME NEW r \in Requests, NEW n \in Notes, UpdateRead(r, n) PROVE TypeOK'
  BY <1>6 DEF UpdateRead, Goto, Updating, issue, record
<1>7. ASSUME NEW r \in Requests, NEW n \in Notes, PostPdf(r, n) PROVE TypeOK'
  BY <1>7 DEF PostPdf, Goto, Working, issue, record, history
<1>8. ASSUME NEW r \in Requests, UpdateAsk(r) PROVE TypeOK'
  BY <1>8 DEF Places, UpdateAsk, Goto, Updating, issue, record, history
<1>9. ASSUME NEW r \in Requests, UpdateCompare(r) PROVE TypeOK'
  BY <1>9 DEF UpdateCompare, Goto, Updating, AfterStatus, issue, record, call, history
<1>10. ASSUME NEW r \in Requests, UpdateInvoice(r) PROVE TypeOK'
  BY <1>10 DEF Places, UpdateInvoice, StartJob, Goto, Updating, AfterStatus, Working,
    issue, call, history
<1>11. ASSUME NEW r \in Requests, UpdateNotice(r) PROVE TypeOK'
  <2>1. note[r] \in Notes /\ seen[r] \in Statuses
    BY <1>11 DEF Places, Asked, UpdateNotice, Updating, AfterStatus
  <2>2. events' \in [Notes -> SUBSET Statuses]
    BY <1>11, <2>1 DEF UpdateNotice
  <2>3. pc'[r] \in {"write", "error"} /\ cut' \subseteq Notes
    BY <1>11, <2>1 DEF UpdateNotice, Goto, Cut, Updating, AfterStatus
  <2> QED BY <1>11, <2>2, <2>3 DEF UpdateNotice, StartJob, Goto, Updating, AfterStatus,
    Working, issue, call
<1>12. ASSUME NEW r \in Requests, UpdateWrite(r) PROVE TypeOK'
  BY <1>12 DEF Places, UpdateWrite, Cut, Goto, Updating, AfterStatus, issue, call
<1>13. ASSUME NEW r \in Requests, UpdateEvent(r) PROVE TypeOK'
  <2>1. note[r] \in Notes /\ seen[r] \in Statuses
    BY <1>13 DEF Places, Asked, UpdateEvent, Updating, AfterStatus
  <2>2. events' \in [Notes -> SUBSET Statuses]
    BY <1>13, <2>1 DEF UpdateEvent
  <2> QED BY <1>13, <2>2 DEF UpdateEvent, Goto, Updating, issue, call, history
<1>14. ASSUME NEW r \in Requests, UpdateReread(r) PROVE TypeOK'
  BY <1>14 DEF UpdateReread, Goto, issue, record, call, history
<1>15. ASSUME NEW r \in Requests, UpdateFails(r) PROVE TypeOK'
  BY <1>15 DEF Places, UpdateFails, Cut, Goto, issue, record, call
<1>16. ASSUME NEW r \in Requests, JobStep(r) PROVE TypeOK'
  <2>1. note[r] \in Notes
    BY <1>16 DEF Places, JobStep
  <2>2. job' \in [Requests -> Working \cup {"none", "done", "failed"}]
    BY <1>16 DEF JobStep, JobEnds, Working
  <2>3. pc' \in [Requests -> Updating \cup {"idle", "pdf", "ok", "error"}]
    BY <1>16 DEF JobStep, JobEnds
  <2>4. pdf' \subseteq Notes /\ lost' \subseteq Notes
    BY <1>16, <2>1 DEF JobStep
  <2> QED BY <1>16, <2>2, <2>3, <2>4 DEF JobStep, issue, call
<1>17. CASE Restart
  <2>1. restarts' \in 0 .. MaxRestarts
    BY <1>17, RestartsAssumption DEF Restart
  <2>2. /\ emission' \in [Notes -> Emitting \cup {"idle", "error"}]
        /\ pc' \in [Requests -> Updating \cup {"idle", "pdf", "ok", "error"}]
        /\ job' \in [Requests -> Working \cup {"none", "done", "failed"}]
    BY <1>17 DEF Restart
  <2> QED BY <1>17, <2>1, <2>2 DEF Restart, record, call
<1>18. CASE UNCHANGED vars
  BY <1>18 DEF vars, issue, record, call, history
<1> QED BY <1>1, <1>2, <1>3, <1>4, <1>5, <1>6, <1>7, <1>8, <1>9, <1>10, <1>11, <1>12,
  <1>13, <1>14, <1>15, <1>16, <1>17, <1>18
  DEF Next, EmissionStep, Receive, UpdateStep

LEMMA NextPlaces == IInv /\ [Next]_vars => Places'
<1> SUFFICES ASSUME IInv, [Next]_vars PROVE Places'
  OBVIOUS
<1> USE DEF IInv, TypeOK, Places
<1>1. ASSUME NEW n \in Notes, IssuerMoves(n) PROVE Places'
  BY <1>1 DEF IssuerMoves, record, call, history
<1>2. ASSUME NEW n \in Notes, Post(n) PROVE Places'
  BY <1>2 DEF Post, Emitting, record, call, history
<1>3. ASSUME NEW n \in Notes, InsertRow(n) PROVE Places'
  <2>1. AfterInsert[emission[n]] \in {"nfse", "event", "invoice2", "nfse2", "error"}
    BY <1>3 DEF InsertRow, AfterInsert, Emitting
  <2>2. \A m \in Notes :
          /\ emission'[m] = "idle" => remote'[m] = "none"
          /\ emission'[m] \in {"idle", "invoice"} => rows'[m] = {}
          /\ emission'[m] \in Emitting \/ rows'[m] # {} => remote'[m] # "none"
    BY <1>3, <2>1 DEF InsertRow
  <2>3. \A m \in Notes : "invoice" \notin rows'[m] => invoice'[m] = "none"
    BY <1>3 DEF InsertRow
  <2>4. \A m \in Notes : "invoice" \in rows[m] => "invoice" \in rows'[m]
    BY <1>3 DEF InsertRow
  <2> QED BY <1>3, <2>2, <2>3, <2>4 DEF InsertRow, call
<1>4. ASSUME NEW n \in Notes, InsertFails(n) PROVE Places'
  BY <1>4 DEF InsertFails, Emitting, record, call
<1>5. ASSUME NEW n \in Notes, Delete(n) PROVE Places'
  BY <1>5 DEF Delete, record, call
<1>6. ASSUME NEW r \in Requests, NEW n \in Notes, UpdateRead(r, n) PROVE Places'
  BY <1>6 DEF UpdateRead, Goto, Updating, Asked, AfterStatus, issue, record
<1>7. ASSUME NEW r \in Requests, NEW n \in Notes, PostPdf(r, n) PROVE Places'
  BY <1>7 DEF PostPdf, Goto, Updating, Asked, AfterStatus, issue, record
<1>8. ASSUME NEW r \in Requests, UpdateAsk(r) PROVE Places'
  <2>1. remote[note[r]] \in Statuses
    BY <1>8 DEF UpdateAsk, Updating
  <2> QED BY <1>8, <2>1 DEF UpdateAsk, Goto, Updating, Asked, issue, record
<1>9. ASSUME NEW r \in Requests, UpdateCompare(r) PROVE Places'
  BY <1>9 DEF UpdateCompare, Goto, Updating, Asked, AfterStatus, issue, record, call
<1>10. ASSUME NEW r \in Requests, UpdateInvoice(r) PROVE Places'
  BY <1>10 DEF UpdateInvoice, StartJob, Goto, Updating, Asked, AfterStatus, issue, call
<1>11. ASSUME NEW r \in Requests, UpdateNotice(r) PROVE Places'
  BY <1>11 DEF UpdateNotice, StartJob, Goto, Updating, Asked, AfterStatus, issue, call
<1>12. ASSUME NEW r \in Requests, UpdateWrite(r) PROVE Places'
  BY <1>12 DEF UpdateWrite, Goto, Updating, Asked, AfterStatus, issue, call
<1>13. ASSUME NEW r \in Requests, UpdateEvent(r) PROVE Places'
  BY <1>13 DEF UpdateEvent, Goto, Updating, Asked, AfterStatus, issue, call
<1>14. ASSUME NEW r \in Requests, UpdateReread(r) PROVE Places'
  BY <1>14 DEF UpdateReread, Goto, Updating, Asked, AfterStatus, issue, record, call
<1>15. ASSUME NEW r \in Requests, UpdateFails(r) PROVE Places'
  BY <1>15 DEF UpdateFails, Goto, Updating, Asked, AfterStatus, issue, record, call
<1>16. ASSUME NEW r \in Requests, JobStep(r) PROVE Places'
  BY <1>16 DEF JobStep, JobEnds, Updating, Asked, AfterStatus, Working, issue, call
<1>17. CASE Restart
  BY <1>17 DEF Restart, Emitting, Updating, Asked, AfterStatus, Working, record, call
<1>18. CASE UNCHANGED vars
  BY <1>18 DEF vars, issue, record, call
<1> QED BY <1>1, <1>2, <1>3, <1>4, <1>5, <1>6, <1>7, <1>8, <1>9, <1>10, <1>11, <1>12,
  <1>13, <1>14, <1>15, <1>16, <1>17, <1>18
  DEF Next, EmissionStep, Receive, UpdateStep

THEOREM Invariance == Spec => []IInv
<1>1. IInv /\ [Next]_vars => IInv'
  BY NextTypeOK, NextPlaces DEF IInv
<1> QED BY InitIInv, <1>1, PTL DEF Spec

(* Every variable keeps its type: a row never names a status that neither   *)
(* the issuer nor the emission gave it.                                     *)
THEOREM TypeCorrect == Spec => []TypeOK
<1>1. IInv => TypeOK
  BY DEF IInv
<1> QED BY Invariance, <1>1, PTL

----------------------------------------------------------------------------
(* The event of a status.                                                   *)

LEMMA NextEvent == IInv /\ StatusHasEvent /\ [Next]_vars => StatusHasEvent'
<1> SUFFICES ASSUME IInv, StatusHasEvent, [Next]_vars PROVE StatusHasEvent'
  OBVIOUS
<1> USE DEF IInv, TypeOK, Places, StatusHasEvent
<1>1. ASSUME NEW n \in Notes, IssuerMoves(n) PROVE StatusHasEvent'
  BY <1>1 DEF IssuerMoves, record, call, history
<1>2. ASSUME NEW n \in Notes, Post(n) PROVE StatusHasEvent'
  BY <1>2 DEF Post, record, call, history
<1>3. ASSUME NEW n \in Notes, InsertRow(n) PROVE StatusHasEvent'
  BY <1>3 DEF InsertRow, call, history
<1>4. ASSUME NEW n \in Notes, InsertFails(n) PROVE StatusHasEvent'
  BY <1>4 DEF InsertFails, record, call, history
<1>5. ASSUME NEW n \in Notes, Delete(n) PROVE StatusHasEvent'
  BY <1>5 DEF Delete, record, call, history
<1>6. ASSUME NEW r \in Requests, NEW n \in Notes, UpdateRead(r, n) PROVE StatusHasEvent'
  BY <1>6 DEF UpdateRead, Goto, AfterStatus, record
<1>7. ASSUME NEW r \in Requests, NEW n \in Notes, PostPdf(r, n) PROVE StatusHasEvent'
  BY <1>7 DEF PostPdf, Goto, AfterStatus, record, history
<1>8. ASSUME NEW r \in Requests, UpdateAsk(r) PROVE StatusHasEvent'
  BY <1>8 DEF UpdateAsk, Goto, AfterStatus, record, history
<1>9. ASSUME NEW r \in Requests, UpdateCompare(r) PROVE StatusHasEvent'
  BY <1>9 DEF UpdateCompare, Goto, AfterStatus, record, call, history
<1>10. ASSUME NEW r \in Requests, UpdateInvoice(r) PROVE StatusHasEvent'
  BY <1>10 DEF UpdateInvoice, Goto, AfterStatus, Updating, call, history
<1>11. ASSUME NEW r \in Requests, UpdateNotice(r) PROVE StatusHasEvent'
  <2>1. \A n \in Notes : events[n] \subseteq events'[n]
    BY <1>11 DEF UpdateNotice
  <2>2. pc'[r] = "write" \/ note[r] \in cut'
    BY <1>11 DEF UpdateNotice, Goto, Cut, Updating, AfterStatus
  <2>3. cut \subseteq cut' /\ UNCHANGED <<invoice, note, seen>>
    BY <1>11 DEF UpdateNotice, Cut, call
  <2>4. \A q \in Requests \ {r} : pc'[q] = pc[q]
    BY <1>11 DEF UpdateNotice, Goto
  <2> QED BY <2>1, <2>2, <2>3, <2>4 DEF AfterStatus
<1>12. ASSUME NEW r \in Requests, UpdateWrite(r) PROVE StatusHasEvent'
  BY <1>12 DEF UpdateWrite, Cut, Goto, AfterStatus, Updating, call
<1>13. ASSUME NEW r \in Requests, UpdateEvent(r) PROVE StatusHasEvent'
  <2>1. note[r] \in Notes
    BY <1>13 DEF UpdateEvent, Updating, AfterStatus
  <2>2. /\ \A n \in Notes : events[n] \subseteq events'[n]
        /\ seen[r] \in events'[note[r]]
    BY <1>13, <2>1 DEF UpdateEvent
  <2> QED BY <1>13, <2>2 DEF UpdateEvent, Goto, AfterStatus, call, history
<1>14. ASSUME NEW r \in Requests, UpdateReread(r) PROVE StatusHasEvent'
  BY <1>14 DEF UpdateReread, Goto, AfterStatus, record, call, history
<1>15. ASSUME NEW r \in Requests, UpdateFails(r) PROVE StatusHasEvent'
  BY <1>15 DEF UpdateFails, Cut, Goto, AfterStatus, record, call
<1>16. ASSUME NEW r \in Requests, JobStep(r) PROVE StatusHasEvent'
  <2>1. \A q \in Requests : pc[q] \in AfterStatus => pc'[q] = pc[q]
    BY <1>16 DEF JobStep, JobEnds, AfterStatus
  <2>2. UNCHANGED <<invoice, events, note, seen, cut>>
    BY <1>16 DEF JobStep, call
  <2> QED BY <2>1, <2>2
<1>17. CASE Restart
  BY <1>17 DEF Restart, record, call
<1>18. CASE UNCHANGED vars
  BY <1>18 DEF vars, record, call, history
<1> QED BY <1>1, <1>2, <1>3, <1>4, <1>5, <1>6, <1>7, <1>8, <1>9, <1>10, <1>11, <1>12,
  <1>13, <1>14, <1>15, <1>16, <1>17, <1>18
  DEF Next, EmissionStep, Receive, UpdateStep

(* A status that is shown has its event, but for an update that is about to *)
(* write it or that failed halfway (nfse.service.js:1199-1222).             *)
THEOREM ShownStatusHasEvent == Spec => []StatusHasEvent
<1>1. Init => StatusHasEvent
  <2> SUFFICES ASSUME Init, NEW n \in Notes PROVE invoice[n] = "none"
    BY DEF StatusHasEvent
  <2> QED BY DEF Init
<1>2. IInv /\ StatusHasEvent /\ [Next]_vars => StatusHasEvent'
  BY NextEvent
<1> QED BY Invariance, <1>1, <1>2, PTL DEF Spec

----------------------------------------------------------------------------
(* Statuses never go back.                                                  *)

(* A step of the issuer only moves on.                                      *)
LEMMA IssuerAges ==
  ASSUME IInv, [Next]_vars
  PROVE  \A n \in Notes : Age[remote[n]] <= Age[remote'[n]]
<1> USE AgeFacts DEF IInv, TypeOK, Places
<1>1. ASSUME NEW n \in Notes, IssuerMoves(n)
      PROVE  \A m \in Notes : Age[remote[m]] <= Age[remote'[m]]
  BY <1>1 DEF IssuerMoves, Statuses
<1>2. ASSUME NEW n \in Notes, Post(n)
      PROVE  \A m \in Notes : Age[remote[m]] <= Age[remote'[m]]
  BY <1>2 DEF Post, Statuses
<1>3. CASE UNCHANGED remote
  BY <1>3 DEF Statuses
<1>4. (\E n \in Notes : IssuerMoves(n) \/ Post(n)) \/ UNCHANGED remote
  BY DEF Next, EmissionStep, InsertRow, InsertFails, Delete, Receive, UpdateRead,
    PostPdf, UpdateStep, UpdateAsk, UpdateCompare, UpdateInvoice, UpdateNotice,
    UpdateWrite, UpdateEvent, UpdateReread, UpdateFails, JobStep, Restart, vars, issue
<1> QED BY <1>1, <1>2, <1>3, <1>4

LEMMA InitAges == Init => Ages /\ Alone /\ Tracks
BY AgeFacts DEF Init, Ages, Alone, Tracks, Asked, Updating, AfterStatus, Statuses

LEMMA NextAges == IInv /\ Ages /\ [Next]_vars => Ages'
<1> SUFFICES ASSUME IInv, Ages, [Next]_vars PROVE Ages'
  OBVIOUS
<1> USE AgeFacts DEF IInv, TypeOK, Places, Ages
<1>0. /\ \A n \in Notes : Age[remote[n]] <= Age[remote'[n]]
      /\ remote' \in [Notes -> Statuses \cup {"none"}]
      /\ \A n \in Notes : Age[remote[n]] \in Nat /\ Age[remote'[n]] \in Nat
      /\ \A n \in Notes : Age[invoice[n]] \in Nat
      /\ \A r \in Requests : Age[seen[r]] \in Nat
  <2>1. remote' \in [Notes -> Statuses \cup {"none"}]
    BY NextTypeOK
  <2>2. \A s \in Statuses \cup {"none"} : Age[s] \in Nat
    OBVIOUS
  <2>3. /\ \A n \in Notes : Age[remote[n]] \in Nat /\ Age[remote'[n]] \in Nat
        /\ \A n \in Notes : Age[invoice[n]] \in Nat
        /\ \A r \in Requests : Age[seen[r]] \in Nat
    BY <2>1, <2>2
  <2> QED BY <2>1, <2>3, IssuerAges
<1>1. ASSUME UNCHANGED <<invoice, note, seen>>,
             \A r \in Requests : pc'[r] \in Asked => pc[r] \in Asked
      PROVE  Ages'
  <2>1. \A n \in Notes : Age[invoice'[n]] <= Age[remote'[n]]
    BY <1>0, <1>1
  <2>2. ASSUME NEW r \in Requests, pc'[r] \in Asked
        PROVE  Age[seen'[r]] <= Age[remote'[note'[r]]]
    BY <1>0, <1>1, <2>2 DEF Asked
  <2> QED BY <2>1, <2>2
<1>2. ASSUME NEW n \in Notes, InsertRow(n) PROVE Ages'
  <2>1. remote[n] \in Statuses /\ UNCHANGED <<remote, note, seen, pc>>
    BY <1>2 DEF InsertRow, call
  <2>2. \A m \in Notes : Age[invoice'[m]] <= Age[remote'[m]]
    BY <1>0, <1>2, <2>1 DEF InsertRow, Statuses
  <2> QED BY <2>1, <2>2
<1>3. ASSUME NEW r \in Requests, NEW n \in Notes, UpdateRead(r, n) PROVE Ages'
  <2>1. pc'[r] \notin Asked /\ UNCHANGED <<invoice, seen, remote>>
    BY <1>3 DEF UpdateRead, Goto, Asked, Updating, AfterStatus, record, issue
  <2>2. \A q \in Requests \ {r} : note'[q] = note[q] /\ pc'[q] = pc[q]
    BY <1>3 DEF UpdateRead, Goto
  <2> QED BY <2>1, <2>2
<1>4. ASSUME NEW r \in Requests, NEW n \in Notes, PostPdf(r, n) PROVE Ages'
  <2>1. pc'[r] \notin Asked /\ UNCHANGED <<invoice, seen, remote>>
    BY <1>4 DEF PostPdf, Goto, Asked, Updating, AfterStatus, record, issue
  <2>2. \A q \in Requests \ {r} : note'[q] = note[q] /\ pc'[q] = pc[q]
    BY <1>4 DEF PostPdf, Goto
  <2> QED BY <2>1, <2>2
<1>5. ASSUME NEW r \in Requests, UpdateAsk(r) PROVE Ages'
  <2>1. UNCHANGED <<invoice, note, remote>> /\ seen'[r] = remote[note[r]]
    BY <1>5 DEF UpdateAsk, record, issue
  <2>2. \A q \in Requests \ {r} : seen'[q] = seen[q] /\ pc'[q] = pc[q]
    BY <1>5 DEF UpdateAsk, Goto
  <2>3. note[r] \in Notes
    BY <1>5 DEF UpdateAsk, Updating
  <2>4. Age[seen'[r]] <= Age[remote'[note'[r]]]
    BY <1>0, <2>1, <2>3
  <2> QED BY <2>1, <2>2, <2>4
<1>6. ASSUME NEW r \in Requests, pc[r] \in Asked, UNCHANGED <<remote, note, seen>>,
             invoice' = [invoice EXCEPT ![note[r]] = seen[r]],
             \A q \in Requests : pc'[q] \in Asked => pc[q] \in Asked
      PROVE  Ages'
  <2>1. note[r] \in Notes /\ Age[seen[r]] <= Age[remote[note[r]]]
    BY <1>6 DEF Asked
  <2>2. \A n \in Notes : Age[invoice'[n]] <= Age[remote'[n]]
    BY <1>0, <1>6, <2>1
  <2> QED BY <1>6, <2>2
<1>7. ASSUME NEW r \in Requests, UpdateInvoice(r) PROVE Ages'
  BY <1>6, <1>7 DEF UpdateInvoice, Goto, Asked, Updating, AfterStatus, issue, call
<1>8. ASSUME NEW r \in Requests, UpdateWrite(r) PROVE Ages'
  <2>1. CASE "nfse" \in rows[note[r]]
    BY <1>6, <1>8, <2>1 DEF UpdateWrite, Goto, Asked, Updating, AfterStatus, issue, call
  <2>2. CASE "nfse" \notin rows[note[r]]
    BY <1>1, <1>8, <2>2 DEF UpdateWrite, Goto, Asked, Updating, AfterStatus, issue, call
  <2> QED BY <2>1, <2>2
<1>9. ASSUME NEW n \in Notes, IssuerMoves(n) \/ Post(n) \/ InsertFails(n) \/ Delete(n)
      PROVE  Ages'
  BY <1>1, <1>9 DEF IssuerMoves, Post, InsertFails, Delete, record, call
<1>10. ASSUME NEW r \in Requests,
              UpdateCompare(r) \/ UpdateNotice(r) \/ UpdateEvent(r) \/ UpdateReread(r)
                \/ UpdateFails(r)
       PROVE  Ages'
  BY <1>1, <1>10 DEF UpdateCompare, UpdateNotice, UpdateEvent, UpdateReread, UpdateFails,
    Goto, Asked, Updating, AfterStatus, record, call
<1>11. ASSUME NEW r \in Requests, JobStep(r) PROVE Ages'
  <2>1. \A q \in Requests : pc'[q] \in Asked => pc[q] \in Asked
    BY <1>11 DEF JobStep, JobEnds, Asked, Updating, AfterStatus
  <2>2. UNCHANGED <<invoice, note, seen>>
    BY <1>11 DEF JobStep, call
  <2> QED BY <1>1, <2>1, <2>2
<1>12. CASE Restart
  BY <1>1, <1>12 DEF Restart, Asked, Updating, AfterStatus, record, call
<1>13. CASE UNCHANGED vars
  BY <1>1, <1>13 DEF vars, record, call
<1> QED BY <1>2, <1>3, <1>4, <1>5, <1>7, <1>8, <1>9, <1>10, <1>11, <1>12, <1>13
  DEF Next, EmissionStep, Receive, UpdateStep

(* A second update of a note that begins while one is under way is noted.   *)
LEMMA NextAlone == IInv /\ Alone /\ [Next]_vars => Alone'
<1> SUFFICES ASSUME IInv, Alone, [Next]_vars PROVE Alone'
  OBVIOUS
<1> USE DEF IInv, TypeOK, Places, Alone
<1>1. ASSUME UNCHANGED <<note, overlapped>>,
             \A r \in Requests : pc'[r] \in Updating => pc[r] \in Updating
      PROVE  Alone'
  BY <1>1
<1>2. ASSUME NEW r \in Requests, NEW n \in Notes, UpdateRead(r, n) PROVE Alone'
  <2>1. \A q \in Requests \ {r} : note'[q] = note[q] /\ pc'[q] = pc[q]
    BY <1>2 DEF UpdateRead, Goto
  <2>2. note'[r] = n /\ overlapped \subseteq overlapped'
    BY <1>2 DEF UpdateRead
  <2>3. ASSUME NEW q \in Requests \ {r}, pc'[r] \in Updating, pc'[q] \in Updating, note'[q] = n
        PROVE  n \in overlapped'
    <3>1. pc[q] \in Updating /\ note[q] = n
      BY <2>1, <2>3
    <3>2. "nfse" \in rows[n]
      BY <1>2, <2>3 DEF UpdateRead, Goto, Updating, AfterStatus
    <3> QED BY <1>2, <3>1, <3>2 DEF UpdateRead
  <2> QED BY <2>1, <2>2, <2>3
<1>3. ASSUME NEW r \in Requests, NEW n \in Notes, PostPdf(r, n) PROVE Alone'
  <2>1. \A q \in Requests \ {r} : note'[q] = note[q] /\ pc'[q] = pc[q]
    BY <1>3 DEF PostPdf, Goto
  <2>2. pc'[r] \notin Updating /\ UNCHANGED overlapped
    BY <1>3 DEF PostPdf, Goto, Updating, AfterStatus, history
  <2> QED BY <2>1, <2>2
<1>4. ASSUME NEW n \in Notes, IssuerMoves(n) \/ Post(n) \/ EmissionStep(n) \/ Delete(n)
      PROVE  Alone'
  BY <1>1, <1>4 DEF IssuerMoves, Post, EmissionStep, InsertRow, InsertFails, Delete,
    call, history
<1>5. ASSUME NEW r \in Requests, UpdateStep(r) PROVE Alone'
  <2>1. pc[r] \in Updating
    BY <1>5 DEF UpdateStep, UpdateAsk, UpdateCompare, UpdateInvoice, UpdateNotice,
      UpdateWrite, UpdateEvent, UpdateReread, UpdateFails, Updating, AfterStatus
  <2>2. \A q \in Requests \ {r} : pc'[q] = pc[q]
    BY <1>5 DEF UpdateStep, UpdateAsk, UpdateCompare, UpdateInvoice, UpdateNotice,
      UpdateWrite, UpdateEvent, UpdateReread, UpdateFails, Goto
  <2>3. UNCHANGED <<note, overlapped>>
    BY <1>5 DEF UpdateStep, UpdateAsk, UpdateCompare, UpdateInvoice, UpdateNotice,
      UpdateWrite, UpdateEvent, UpdateReread, UpdateFails, call, history
  <2> QED BY <1>1, <2>1, <2>2, <2>3
<1>6. ASSUME NEW r \in Requests, JobStep(r) PROVE Alone'
  <2>1. \A q \in Requests : pc'[q] \in Updating => pc[q] \in Updating
    BY <1>6 DEF JobStep, JobEnds, Updating, AfterStatus
  <2>2. UNCHANGED <<note, overlapped>>
    BY <1>6 DEF JobStep, call
  <2> QED BY <1>1, <2>1, <2>2
<1>7. CASE Restart
  BY <1>1, <1>7 DEF Restart, Updating, AfterStatus, call
<1>8. CASE UNCHANGED vars
  BY <1>1, <1>8 DEF vars, call, history
<1> QED BY <1>2, <1>3, <1>4, <1>5, <1>6, <1>7, <1>8 DEF Next, Receive

(* Ages are numbers.                                                        *)
LEMMA AgesOfAll ==
  IInv => /\ \A n \in Notes : Age[invoice[n]] \in Nat /\ Age[remote[n]] \in Nat
          /\ \A r \in Requests : Age[seen[r]] \in Nat /\ Age[local[r]] \in Nat
<1> SUFFICES ASSUME IInv
             PROVE  /\ \A n \in Notes : Age[invoice[n]] \in Nat /\ Age[remote[n]] \in Nat
                    /\ \A r \in Requests : Age[seen[r]] \in Nat /\ Age[local[r]] \in Nat
  OBVIOUS
<1>1. \A s \in Statuses \cup {"none"} : Age[s] \in Nat
  BY AgeFacts
<1> QED BY <1>1 DEF IInv, TypeOK

LEMMA NextTracks == IInv /\ Ages /\ Alone /\ Tracks /\ [Next]_vars => Tracks'
<1> SUFFICES ASSUME IInv, Ages, Alone, Tracks, [Next]_vars PROVE Tracks'
  OBVIOUS
<1> USE DEF IInv, TypeOK, Places, Tracks
<1>1. ASSUME UNCHANGED <<invoice, note, local, seen, overlapped>>,
             \A r \in Requests : pc'[r] \in Updating => pc'[r] = pc[r]
      PROVE  Tracks'
  BY <1>1
<1>2. ASSUME NEW n \in Notes, InsertRow(n) PROVE Tracks'
  <2>1. \A r \in Requests : pc[r] \in Updating => invoice'[note[r]] = invoice[note[r]]
    BY <1>2 DEF InsertRow
  <2> QED BY <1>2, <2>1 DEF InsertRow, call, history
<1>3. ASSUME NEW r \in Requests, NEW n \in Notes, UpdateRead(r, n) PROVE Tracks'
  <2>1. \A q \in Requests \ {r} :
          note'[q] = note[q] /\ pc'[q] = pc[q] /\ local'[q] = local[q]
    BY <1>3 DEF UpdateRead, Goto
  <2>2. note'[r] = n /\ overlapped \subseteq overlapped' /\ UNCHANGED <<invoice, seen>>
    BY <1>3 DEF UpdateRead, record
  <2>3. pc'[r] = "error" \/ (pc'[r] = "remote" /\ local'[r] = invoice[n])
    BY <1>3 DEF UpdateRead, Goto
  <2> QED BY <2>1, <2>2, <2>3 DEF Updating, AfterStatus
<1>4. ASSUME NEW r \in Requests, NEW n \in Notes, PostPdf(r, n) PROVE Tracks'
  <2>1. \A q \in Requests \ {r} : note'[q] = note[q] /\ pc'[q] = pc[q]
    BY <1>4 DEF PostPdf, Goto
  <2>2. pc'[r] \notin Updating /\ UNCHANGED <<invoice, local, seen, overlapped>>
    BY <1>4 DEF PostPdf, Goto, Updating, AfterStatus, record, history
  <2> QED BY <2>1, <2>2
<1>5. ASSUME NEW r \in Requests, UpdateAsk(r) PROVE Tracks'
  <2>1. UNCHANGED <<invoice, note, local, overlapped>>
    BY <1>5 DEF UpdateAsk, record, history
  <2>2. \A q \in Requests \ {r} : seen'[q] = seen[q] /\ pc'[q] = pc[q]
    BY <1>5 DEF UpdateAsk, Goto
  <2>3. pc[r] = "remote" /\ pc'[r] = "last" /\ seen'[r] = remote[note[r]]
    BY <1>5 DEF UpdateAsk, Goto
  <2>4. note[r] \in Notes
    BY <2>3 DEF Updating
  <2>5. Age[invoice[note[r]]] <= Age[seen'[r]]
    BY <2>3, <2>4 DEF Ages
  <2>6. note[r] \notin overlapped => invoice[note[r]] = local[r]
    BY <2>3 DEF Updating
  <2> QED BY <2>1, <2>2, <2>3, <2>5, <2>6
<1>6. ASSUME NEW r \in Requests, UpdateCompare(r) PROVE Tracks'
  <2>1. UNCHANGED <<invoice, note, local, seen, overlapped>>
    BY <1>6 DEF UpdateCompare, record, call, history
  <2>2. \A q \in Requests \ {r} : pc'[q] = pc[q]
    BY <1>6 DEF UpdateCompare, Goto
  <2>3. /\ pc[r] = "last" /\ pc[r] \in Updating
        /\ \/ pc'[r] \in {"invoice", "write"}
           \/ pc'[r] \in {"ok", "event"} /\ local[r] = seen[r]
    BY <1>6 DEF UpdateCompare, Goto, Updating
  <2> QED BY <2>1, <2>2, <2>3 DEF Updating, AfterStatus
<1>7. ASSUME NEW r \in Requests, pc[r] \in Updating, pc'[r] \in {"notice", "write", "event"},
             UNCHANGED <<note, local, seen, overlapped>>,
             invoice' = [invoice EXCEPT ![note[r]] = seen[r]],
             \A q \in Requests \ {r} : pc'[q] = pc[q]
      PROVE  Tracks'
  <2>1. note[r] \in Notes /\ invoice'[note[r]] = seen[r]
    BY <1>7
  <2>2. Age[seen[r]] \in Nat
    BY AgesOfAll
  <2>3. Age[invoice'[note'[r]]] <= Age[seen'[r]]
    BY <1>7, <2>1, <2>2
  <2>4. ASSUME NEW q \in Requests \ {r}, pc[q] \in Updating, note[q] \notin overlapped
        PROVE  invoice'[note[q]] = invoice[note[q]]
    BY <1>7, <2>4 DEF Alone
  <2> QED BY <1>7, <2>1, <2>3, <2>4
<1>8. ASSUME NEW r \in Requests, UpdateInvoice(r) PROVE Tracks'
  <2>1. pc[r] \in Updating /\ pc'[r] \in {"notice", "write", "event"}
    BY <1>8 DEF UpdateInvoice, Goto, Updating
  <2>2. \A q \in Requests \ {r} : pc'[q] = pc[q]
    BY <1>8 DEF UpdateInvoice, Goto
  <2> QED BY <1>7, <1>8, <2>1, <2>2 DEF UpdateInvoice, call, history
<1>9. ASSUME NEW r \in Requests, UpdateWrite(r) PROVE Tracks'
  <2>1. CASE "nfse" \in rows[note[r]]
    <3>1. pc[r] \in Updating /\ pc'[r] \in {"notice", "write", "event"}
      BY <1>9, <2>1 DEF UpdateWrite, Goto, Updating, AfterStatus
    <3>2. \A q \in Requests \ {r} : pc'[q] = pc[q]
      BY <1>9, <2>1 DEF UpdateWrite, Goto
    <3> QED BY <1>7, <1>9, <2>1, <3>1, <3>2 DEF UpdateWrite, call
  <2>2. CASE "nfse" \notin rows[note[r]]
    BY <1>1, <1>9, <2>2 DEF UpdateWrite, Goto, Updating, AfterStatus, call
  <2> QED BY <2>1, <2>2
<1>10. ASSUME NEW r \in Requests, UpdateNotice(r) \/ UpdateEvent(r) PROVE Tracks'
  <2>1. UNCHANGED <<invoice, note, local, seen, overlapped>>
    BY <1>10 DEF UpdateNotice, UpdateEvent, call, history
  <2>2. \A q \in Requests \ {r} : pc'[q] = pc[q]
    BY <1>10 DEF UpdateNotice, UpdateEvent, Goto
  <2>3. /\ pc[r] \in {"notice", "event"} /\ pc[r] \in Updating
        /\ pc'[r] \in {"write", "reread", "error"}
    BY <1>10 DEF UpdateNotice, UpdateEvent, Goto, Updating, AfterStatus
  <2>4. note[r] \notin overlapped =>
          invoice[note[r]] = seen[r] /\ Age[invoice[note[r]]] <= Age[seen[r]]
    BY <2>3, AgesOfAll
  <2> QED BY <2>1, <2>2, <2>3, <2>4
<1>11. ASSUME NEW r \in Requests, UpdateReread(r) \/ UpdateFails(r) PROVE Tracks'
  BY <1>1, <1>11 DEF UpdateReread, UpdateFails, Goto, Updating, AfterStatus, record,
    call, history
<1>12. ASSUME NEW r \in Requests, JobStep(r) PROVE Tracks'
  <2>1. \A q \in Requests : pc'[q] \in Updating => pc'[q] = pc[q]
    BY <1>12 DEF JobStep, JobEnds, Updating, AfterStatus
  <2>2. UNCHANGED <<invoice, note, local, seen, overlapped>>
    BY <1>12 DEF JobStep, call
  <2> QED BY <1>1, <2>1, <2>2
<1>13. ASSUME NEW n \in Notes, IssuerMoves(n) \/ Post(n) \/ InsertFails(n) \/ Delete(n)
       PROVE  Tracks'
  BY <1>1, <1>13 DEF IssuerMoves, Post, InsertFails, Delete, record, call, history
<1>14. CASE Restart
  BY <1>1, <1>14 DEF Restart, Updating, AfterStatus, record, call
<1>15. CASE UNCHANGED vars
  BY <1>1, <1>15 DEF vars, record, call, history
<1> QED BY <1>2, <1>3, <1>4, <1>5, <1>6, <1>8, <1>9, <1>10, <1>11, <1>12, <1>13, <1>14, <1>15
  DEF Next, EmissionStep, Receive, UpdateStep

TInv == IInv /\ Ages /\ Alone /\ Tracks

LEMMA TrackInvariance == Spec => []TInv
<1>1. Init => TInv
  BY InitIInv, InitAges DEF TInv
<1>2. TInv /\ [Next]_vars => TInv'
  BY NextTypeOK, NextPlaces, NextAges, NextAlone, NextTracks DEF TInv, IInv
<1> QED BY <1>1, <1>2, PTL DEF Spec

LEMMA StepKeepsAge ==
  ASSUME TInv, [Next]_vars, NEW n \in Notes
  PROVE  Age[invoice'[n]] >= Age[invoice[n]] \/ n \in overlapped
<1> USE DEF TInv
<1>1. ASSUME UNCHANGED invoice PROVE Age[invoice'[n]] >= Age[invoice[n]]
  BY <1>1, AgesOfAll
<1>2. ASSUME NEW m \in Notes, InsertRow(m) PROVE Age[invoice'[n]] >= Age[invoice[n]]
  <2>1. CASE emission[m] = "invoice"
    <3>1. invoice[m] = "none" /\ invoice'[m] = "processando"
      BY <1>2, <2>1 DEF InsertRow, IInv, TypeOK, Places
    <3>2. n # m => invoice'[n] = invoice[n]
      BY <1>2 DEF InsertRow, IInv, TypeOK
    <3> QED BY <3>1, <3>2, AgeFacts, AgesOfAll
  <2>2. CASE emission[m] # "invoice"
    BY <1>1, <1>2, <2>2 DEF InsertRow
  <2> QED BY <2>1, <2>2
<1>3. ASSUME NEW r \in Requests, UpdateInvoice(r) \/ UpdateWrite(r), invoice' # invoice
      PROVE  Age[invoice'[n]] >= Age[invoice[n]] \/ n \in overlapped
  <2>1. /\ pc[r] \in {"invoice", "write"} /\ pc[r] \in Updating
        /\ invoice' = [invoice EXCEPT ![note[r]] = seen[r]]
    BY <1>3 DEF UpdateInvoice, UpdateWrite, Updating, AfterStatus
  <2>2. note[r] \notin overlapped => Age[invoice[note[r]]] <= Age[seen[r]]
    BY <2>1 DEF Tracks
  <2>3. note[r] \in Notes /\ invoice'[note[r]] = seen[r]
    BY <2>1 DEF IInv, TypeOK, Places
  <2>4. n # note[r] => invoice'[n] = invoice[n]
    BY <2>1 DEF IInv, TypeOK
  <2> QED BY <2>2, <2>3, <2>4, AgesOfAll
<1>4. \/ UNCHANGED invoice
      \/ \E m \in Notes : InsertRow(m)
      \/ \E r \in Requests : UpdateInvoice(r) \/ UpdateWrite(r)
  BY DEF Next, EmissionStep, IssuerMoves, Post, InsertFails, Delete, Receive, UpdateRead,
    PostPdf, UpdateStep, UpdateAsk, UpdateCompare, UpdateNotice, UpdateEvent,
    UpdateReread, UpdateFails, JobStep, Restart, vars, record
<1> QED BY <1>1, <1>2, <1>3, <1>4

(* The status shown of a note never goes back unless updates overlapped     *)
(* (nfse.service.js:1066, 1199).                                            *)
THEOREM StatusMovesOn == Spec => NoRegression
<1>1. TInv /\ [Next]_vars =>
        [\A n \in Notes : Age[invoice'[n]] >= Age[invoice[n]] \/ n \in overlapped]_vars
  BY StepKeepsAge
<1> QED BY TrackInvariance, <1>1, PTL DEF Spec, NoRegression

LEMMA StepAnswers ==
  ASSUME TInv, [Next]_vars, NEW r \in Requests, pc[r] \in Updating, pc'[r] = "ok"
  PROVE  invoice'[note[r]] = seen[r] \/ note[r] \in overlapped
<1> USE DEF TInv
<1>1. UpdateCompare(r) \/ UpdateReread(r)
  <2>1. pc'[r] # pc[r] /\ pc \in [Requests -> Updating \cup {"idle", "pdf", "ok", "error"}]
    BY DEF IInv, TypeOK, Updating, AfterStatus
  <2>2. UpdateStep(r) => UpdateCompare(r) \/ UpdateReread(r)
    BY <2>1 DEF UpdateStep, UpdateAsk, UpdateInvoice, UpdateNotice, UpdateWrite,
      UpdateEvent, UpdateFails, Goto
  <2>3. ASSUME NEW q \in Requests, UpdateStep(q), q # r PROVE pc'[r] = pc[r]
    BY <2>1, <2>3 DEF UpdateStep, UpdateAsk, UpdateCompare, UpdateInvoice, UpdateNotice,
      UpdateWrite, UpdateEvent, UpdateReread, UpdateFails, Goto
  <2>4. ASSUME NEW q \in Requests, Receive(q) PROVE pc'[r] = pc[r]
    <3>1. pc[q] = "idle" /\ q # r
      BY <2>4 DEF Receive, UpdateRead, PostPdf, Updating, AfterStatus
    <3> QED BY <2>1, <2>4, <3>1 DEF Receive, UpdateRead, PostPdf, Goto
  <2>5. ASSUME NEW q \in Requests, JobStep(q) PROVE pc'[r] = pc[r]
    BY <2>1, <2>5 DEF JobStep, JobEnds, Updating, AfterStatus
  <2>6. ASSUME NEW n \in Notes, IssuerMoves(n) \/ Post(n) \/ EmissionStep(n) \/ Delete(n)
        PROVE  pc' = pc
    BY <2>6 DEF IssuerMoves, Post, EmissionStep, InsertRow, InsertFails, Delete
  <2>7. Restart => pc'[r] = "error"
    BY <2>1 DEF Restart
  <2> QED BY <2>1, <2>2, <2>3, <2>4, <2>5, <2>6, <2>7 DEF Next, vars
<1>2. UNCHANGED invoice
  BY <1>1 DEF UpdateCompare, UpdateReread, record
<1>3. CASE UpdateCompare(r)
  <2>1. pc[r] = "last" /\ local[r] = seen[r]
    BY <1>3 DEF UpdateCompare, Goto, IInv, TypeOK
  <2> QED BY <1>2, <2>1 DEF Tracks
<1>4. CASE UpdateReread(r)
  BY <1>2, <1>4 DEF UpdateReread, Tracks
<1> QED BY <1>1, <1>3, <1>4

(* An update that succeeds leaves the status it was given, unless updates   *)
(* overlapped (nfse.service.js:1242).                                       *)
THEOREM AnswersAreRecorded == Spec => AnswerIsRecorded
<1>1. TInv /\ [Next]_vars =>
        [\A r \in Requests :
           pc[r] \in Updating /\ pc'[r] = "ok" =>
             invoice'[note[r]] = seen[r] \/ note[r] \in overlapped]_vars
  BY StepAnswers
<1> QED BY TrackInvariance, <1>1, PTL DEF Spec, AnswerIsRecorded

----------------------------------------------------------------------------
(* What is shown was true at the issuer.                                    *)

(* The statuses a note has had when it has this one.                        *)
Been ==
  [none |-> {"none"},
   processando |-> {"none", "processando"},
   autorizada |-> {"none", "processando", "autorizada"},
   erro |-> {"none", "processando", "erro"},
   cancelada |-> {"none", "processando", "autorizada", "cancelada"}]

ShownWasIssued ==
  /\ \A n \in Notes : invoice[n] \in Been[remote[n]]
  /\ \A n \in pdf : "autorizada" \in Been[remote[n]]

(* And so were a status on its way here, and what a job has checked.        *)
Carried ==
  /\ \A r \in Requests : pc[r] \in Asked => seen[r] \in Been[remote[note[r]]]
  /\ \A r \in Requests : job[r] = "save" => "autorizada" \in Been[remote[note[r]]]

LEMMA BeenFacts ==
  ASSUME NEW s \in Statuses \cup {"none"}
  PROVE  /\ s \in Been[s] /\ "none" \in Been[s]
         /\ s # "none" => "processando" \in Been[s]
BY DEF Been, Statuses

(* A note forgets nothing it has been.                                      *)
LEMMA IssuerHistory ==
  ASSUME IInv, [Next]_vars
  PROVE  \A n \in Notes : Been[remote[n]] \subseteq Been[remote'[n]]
<1> USE DEF IInv, TypeOK, Places
<1>1. ASSUME NEW n \in Notes, IssuerMoves(n)
      PROVE  \A m \in Notes : Been[remote[m]] \subseteq Been[remote'[m]]
  <2>1. Been[remote[n]] \subseteq Been[remote'[n]]
    BY <1>1 DEF IssuerMoves, Been
  <2> QED BY <1>1, <2>1 DEF IssuerMoves
<1>2. ASSUME NEW n \in Notes, Post(n)
      PROVE  \A m \in Notes : Been[remote[m]] \subseteq Been[remote'[m]]
  <2>1. Been[remote[n]] \subseteq Been[remote'[n]]
    BY <1>2 DEF Post, Been
  <2> QED BY <1>2, <2>1 DEF Post
<1>3. (\E n \in Notes : IssuerMoves(n) \/ Post(n)) \/ UNCHANGED remote
  BY DEF Next, EmissionStep, InsertRow, InsertFails, Delete, Receive, UpdateRead,
    PostPdf, UpdateStep, UpdateAsk, UpdateCompare, UpdateInvoice, UpdateNotice,
    UpdateWrite, UpdateEvent, UpdateReread, UpdateFails, JobStep, Restart, vars, issue
<1> QED BY <1>1, <1>2, <1>3

(* A request that has not come yet has no job.                              *)
Fresh == \A r \in Requests : pc[r] = "idle" => job[r] = "none"

LEMMA NextFresh == IInv /\ Fresh /\ [Next]_vars => Fresh'
<1> SUFFICES ASSUME IInv, Fresh, [Next]_vars, NEW r \in Requests, pc'[r] = "idle"
             PROVE  job'[r] = "none"
  BY DEF Fresh
<1> USE DEF IInv, TypeOK, Fresh
<1>1. ASSUME NEW n \in Notes, IssuerMoves(n) \/ Post(n) \/ EmissionStep(n) \/ Delete(n)
      PROVE  UNCHANGED <<pc, job>>
  BY <1>1 DEF IssuerMoves, Post, EmissionStep, InsertRow, InsertFails, Delete
<1>2. ASSUME NEW q \in Requests, Receive(q) PROVE q # r /\ UNCHANGED <<pc[r], job[r]>>
  BY <1>2 DEF Receive, UpdateRead, PostPdf, Goto
<1>3. ASSUME NEW q \in Requests, UpdateStep(q) PROVE q # r /\ UNCHANGED <<pc[r], job[r]>>
  BY <1>3 DEF UpdateStep, UpdateAsk, UpdateCompare, UpdateInvoice, UpdateNotice,
    UpdateWrite, UpdateEvent, UpdateReread, UpdateFails, Goto, StartJob
<1>4. ASSUME NEW q \in Requests, JobStep(q) PROVE q # r /\ UNCHANGED <<pc[r], job[r]>>
  <2>1. pc[r] = "idle"
    BY <1>4 DEF JobStep, JobEnds
  <2>2. q # r
    BY <1>4, <2>1 DEF JobStep, Working
  <2> QED BY <1>4, <2>2 DEF JobStep, JobEnds
<1>5. Restart => UNCHANGED <<pc[r], job[r]>>
  BY DEF Restart, Working
<1> QED BY <1>1, <1>2, <1>3, <1>4, <1>5 DEF Next, vars

LEMMA NextIssued ==
  IInv /\ Fresh /\ ShownWasIssued /\ Carried /\ [Next]_vars => ShownWasIssued' /\ Carried'
<1> SUFFICES ASSUME IInv, Fresh, ShownWasIssued, Carried, [Next]_vars
             PROVE  ShownWasIssued' /\ Carried'
  OBVIOUS
<1> USE DEF IInv, TypeOK, Places, ShownWasIssued, Carried
<1>0. \A n \in Notes : Been[remote[n]] \subseteq Been[remote'[n]]
  BY IssuerHistory
<1>1. ASSUME UNCHANGED <<invoice, pdf, note, seen>>,
             \A r \in Requests : pc'[r] \in Asked => pc[r] \in Asked,
             \A r \in Requests : job'[r] = "save" => job[r] = "save"
      PROVE  ShownWasIssued' /\ Carried'
  BY <1>0, <1>1 DEF Asked, Working
<1>2. ASSUME NEW n \in Notes, InsertRow(n) PROVE ShownWasIssued' /\ Carried'
  <2>1. remote[n] \in Statuses /\ UNCHANGED <<remote, pdf, note, seen, pc, job>>
    BY <1>2 DEF InsertRow, call
  <2>2. "processando" \in Been[remote[n]]
    BY <2>1, BeenFacts DEF Statuses
  <2>3. \A m \in Notes : invoice'[m] \in Been[remote[m]]
    BY <1>2, <2>2 DEF InsertRow
  <2> QED BY <2>1, <2>3
<1>3. ASSUME NEW r \in Requests, NEW n \in Notes, UpdateRead(r, n) \/ PostPdf(r, n)
      PROVE  ShownWasIssued' /\ Carried'
  <2>1. \A q \in Requests \ {r} : UNCHANGED <<note[q], pc[q], job[q]>>
    BY <1>3 DEF UpdateRead, PostPdf, Goto
  <2>2. UNCHANGED <<remote, invoice, pdf, seen>>
    BY <1>3 DEF UpdateRead, PostPdf, record, issue
  <2>3. pc'[r] \notin Asked
    BY <1>3 DEF UpdateRead, PostPdf, Goto, Asked, Updating, AfterStatus
  <2>4. job'[r] # "save"
    BY <1>3 DEF UpdateRead, PostPdf, Fresh
  <2> QED BY <2>1, <2>2, <2>3, <2>4
<1>4. ASSUME NEW r \in Requests, UpdateAsk(r) PROVE ShownWasIssued' /\ Carried'
  <2>1. UNCHANGED <<invoice, pdf, note, job, remote>>
    BY <1>4 DEF UpdateAsk, record, issue
  <2>2. \A q \in Requests \ {r} : seen'[q] = seen[q] /\ pc'[q] = pc[q]
    BY <1>4 DEF UpdateAsk, Goto
  <2>3. note[r] \in Notes /\ seen'[r] = remote[note[r]]
    BY <1>4 DEF UpdateAsk, Updating
  <2>4. seen'[r] \in Been[remote[note[r]]]
    BY <2>3, BeenFacts
  <2> QED BY <2>1, <2>2, <2>4
<1>5. ASSUME NEW r \in Requests, UpdateInvoice(r) \/ UpdateWrite(r), UNCHANGED invoice
      PROVE  ShownWasIssued' /\ Carried'
  <2>1. \A q \in Requests : pc'[q] \in Asked => pc[q] \in Asked
    BY <1>5 DEF UpdateInvoice, UpdateWrite, Goto, Asked, Updating, AfterStatus
  <2>2. \A q \in Requests : job'[q] = "save" => job[q] = "save"
    BY <1>5 DEF UpdateInvoice, UpdateWrite, StartJob
  <2> QED BY <1>1, <1>5, <2>1, <2>2 DEF UpdateInvoice, UpdateWrite, call
<1>6. ASSUME NEW r \in Requests, UpdateInvoice(r) \/ UpdateWrite(r),
             invoice' = [invoice EXCEPT ![note[r]] = seen[r]]
      PROVE  ShownWasIssued' /\ Carried'
  <2>1. UNCHANGED <<remote, pdf, note, seen>>
    BY <1>6 DEF UpdateInvoice, UpdateWrite, issue, call
  <2>2. \A q \in Requests : pc'[q] \in Asked => pc[q] \in Asked
    BY <1>6 DEF UpdateInvoice, UpdateWrite, Goto, Asked, Updating, AfterStatus
  <2>3. \A q \in Requests : job'[q] = "save" => job[q] = "save"
    BY <1>6 DEF UpdateInvoice, UpdateWrite, StartJob
  <2>4. pc[r] \in Asked
    BY <1>6 DEF UpdateInvoice, UpdateWrite, Asked, Updating, AfterStatus
  <2>5. \A n \in Notes : invoice'[n] \in Been[remote[n]]
    BY <1>6, <2>4 DEF Asked
  <2> QED BY <2>1, <2>2, <2>3, <2>5
<1>7. ASSUME NEW r \in Requests, UpdateInvoice(r) \/ UpdateWrite(r)
      PROVE  ShownWasIssued' /\ Carried'
  BY <1>5, <1>6, <1>7 DEF UpdateInvoice, UpdateWrite
<1>8. ASSUME NEW r \in Requests,
             UpdateCompare(r) \/ UpdateNotice(r) \/ UpdateEvent(r) \/ UpdateReread(r)
               \/ UpdateFails(r)
      PROVE  ShownWasIssued' /\ Carried'
  <2>1. \A q \in Requests : pc'[q] \in Asked => pc[q] \in Asked
    BY <1>8 DEF UpdateCompare, UpdateNotice, UpdateEvent, UpdateReread, UpdateFails,
      Goto, Asked, Updating, AfterStatus
  <2>2. \A q \in Requests : job'[q] = "save" => job[q] = "save"
    BY <1>8 DEF UpdateCompare, UpdateNotice, UpdateEvent, UpdateReread, UpdateFails,
      StartJob
  <2> QED BY <1>1, <1>8, <2>1, <2>2 DEF UpdateCompare, UpdateNotice, UpdateEvent,
    UpdateReread, UpdateFails, record, call
<1>9. ASSUME NEW r \in Requests, JobStep(r) PROVE ShownWasIssued' /\ Carried'
  <2>1. UNCHANGED <<remote, invoice, note, seen>> /\ note[r] \in Notes
    BY <1>9 DEF JobStep, issue, call
  <2>2. \A q \in Requests : pc'[q] \in Asked => pc[q] \in Asked
    BY <1>9 DEF JobStep, JobEnds, Asked, Updating, AfterStatus
  <2>3. \A q \in Requests \ {r} : job'[q] = job[q]
    BY <1>9 DEF JobStep, JobEnds
  <2>4. job'[r] = "save" => remote[note[r]] = "autorizada"
    BY <1>9 DEF JobStep, JobEnds, Working
  <2>5. job'[r] = "save" => "autorizada" \in Been[remote[note[r]]]
    BY <2>4 DEF Been
  <2>6. \A n \in pdf' : n \in pdf \/ (n = note[r] /\ job[r] = "save")
    BY <1>9 DEF JobStep
  <2> QED BY <2>1, <2>2, <2>3, <2>5, <2>6
<1>10. ASSUME NEW n \in Notes, IssuerMoves(n) \/ Post(n) \/ InsertFails(n) \/ Delete(n)
       PROVE  ShownWasIssued' /\ Carried'
  BY <1>1, <1>10 DEF IssuerMoves, Post, InsertFails, Delete, record, call
<1>11. CASE Restart
  BY <1>1, <1>11 DEF Restart, Asked, Updating, AfterStatus, record, call
<1>12. CASE UNCHANGED vars
  BY <1>1, <1>12 DEF vars, record, call
<1> QED BY <1>2, <1>3, <1>4, <1>7, <1>8, <1>9, <1>10, <1>11, <1>12
  DEF Next, EmissionStep, Receive, UpdateStep

(* A status that is shown is one the note has had at the issuer: never an   *)
(* authorisation of a refused note, whatever updates overlapped, were cut   *)
(* or came late; and a PDF that is kept is of a note that was authorised    *)
(* (nfse.service.js:1066, 1199; 1372).                   *)
THEOREM WhatIsShownWasIssued == Spec => []ShownWasIssued
<1>1. Init => Fresh /\ ShownWasIssued /\ Carried
  BY BeenFacts DEF Init, Fresh, ShownWasIssued, Carried, Asked, Updating, AfterStatus
<1>2. IInv /\ (Fresh /\ ShownWasIssued /\ Carried) /\ [Next]_vars =>
        (Fresh /\ ShownWasIssued /\ Carried)'
  BY NextFresh, NextIssued
<1> QED BY Invariance, <1>1, <1>2, PTL DEF Spec

----------------------------------------------------------------------------
(* What an emission leaves.                                                 *)

(* The rows there are when an emission is at an insert.                     *)
Before ==
  [idle |-> {}, invoice |-> {}, nfse |-> {"invoice"}, event |-> {"invoice", "nfse"},
   invoice2 |-> {"invoice", "nfse", "event"},
   nfse2 |-> {"invoice", "nfse", "event", "invoice2"}]

Prefixes == {Before[e] : e \in Emitting} \cup {Emitting}

(* The rows of a note, whose nfse row may have been deleted since.          *)
RowsAre(n, p) == rows[n] \in {p, p \ {"nfse"}}

InOrder(n) ==
  /\ emission[n] # "error" => RowsAre(n, Before[emission[n]])
  /\ emission[n] = "error" => \E p \in Prefixes : RowsAre(n, p)

RowsInOrder == \A n \in Notes : InOrder(n)

LEMMA BeforeFacts ==
  /\ Emitting \in Prefixes /\ \A e \in Emitting : Before[e] \in Prefixes
  /\ Before["idle"] = {} /\ Before["invoice"] = {}
  /\ "error" \notin Emitting /\ "idle" \notin Emitting /\ "invoice" \in Emitting
BY DEF Prefixes, Before, Emitting

LEMMA InsertFacts ==
  ASSUME NEW e \in Emitting
  PROVE  /\ e = "nfse" => "nfse" \notin Before[e]
         /\ e = "nfse2" => AfterInsert[e] = "error" /\ Before[e] \cup {e} = Emitting
         /\ e # "nfse2" => /\ AfterInsert[e] # "error"
                           /\ Before[AfterInsert[e]] = Before[e] \cup {e}
<1>1. e \in {"invoice", "nfse", "event", "invoice2", "nfse2"}
  BY DEF Emitting
<1> QED BY <1>1 DEF Before, AfterInsert, Emitting

LEMMA NextRows == IInv /\ RowsInOrder /\ [Next]_vars => RowsInOrder'
<1> SUFFICES ASSUME IInv, [Next]_vars, NEW n \in Notes, InOrder(n) PROVE InOrder(n)'
  BY DEF RowsInOrder
<1>0. emission[n] = "idle" => rows[n] = {}
  BY DEF IInv, Places
<1>1. CASE UNCHANGED <<emission[n], rows[n]>>
  BY <1>1 DEF InOrder, RowsAre
<1>2. CASE Post(n)
  <2>1. emission[n] = "idle" /\ rows[n] = {} /\ UNCHANGED rows
    BY <1>0, <1>2 DEF Post
  <2>2. emission'[n] \in {"invoice", "error"}
    BY <1>2 DEF Post, IInv, TypeOK
  <2> QED BY <2>1, <2>2, BeforeFacts DEF InOrder, RowsAre
<1>3. CASE InsertRow(n)
  <2>1. PICK e \in Emitting : e = emission[n]
    BY <1>3 DEF InsertRow, Emitting
  <2>2. rows'[n] = rows[n] \cup {e} /\ emission'[n] = AfterInsert[e]
    BY <1>3, <2>1 DEF InsertRow, IInv, TypeOK
  <2>3. rows[n] = Before[e] \/ rows[n] = Before[e] \ {"nfse"}
    BY <2>1, BeforeFacts DEF InOrder, RowsAre
  <2>4. RowsAre(n, Before[e] \cup {e})'
    BY <2>2, <2>3, InsertFacts DEF RowsAre
  <2>5. CASE e = "nfse2"
    BY <2>2, <2>4, <2>5, InsertFacts, BeforeFacts DEF InOrder
  <2>6. CASE e # "nfse2"
    BY <2>2, <2>4, <2>6, InsertFacts DEF InOrder, RowsAre
  <2> QED BY <2>5, <2>6
<1>4. CASE emission[n] \in Emitting /\ emission'[n] = "error" /\ UNCHANGED rows
  BY <1>4, BeforeFacts DEF InOrder, RowsAre
<1>5. CASE Delete(n)
  <2>1. rows'[n] = rows[n] \ {"nfse"} /\ UNCHANGED emission
    BY <1>5 DEF Delete, IInv, TypeOK
  <2>2. \A p : RowsAre(n, p) => RowsAre(n, p)'
    BY <2>1 DEF RowsAre
  <2> QED BY <2>1, <2>2 DEF InOrder
<1>6. \/ UNCHANGED <<emission[n], rows[n]>>
      \/ Post(n) \/ InsertRow(n) \/ Delete(n)
      \/ emission[n] \in Emitting /\ emission'[n] = "error" /\ UNCHANGED rows
  <2>1. ASSUME NEW m \in Notes, m # n, Post(m) \/ InsertRow(m) \/ InsertFails(m) \/ Delete(m)
        PROVE  UNCHANGED <<emission[n], rows[n]>>
    BY <2>1 DEF Post, InsertRow, InsertFails, Delete, IInv, TypeOK
  <2>2. ASSUME InsertFails(n) \/ Restart
        PROVE  \/ UNCHANGED <<emission[n], rows[n]>>
               \/ emission[n] \in Emitting /\ emission'[n] = "error" /\ UNCHANGED rows
    BY <2>2 DEF InsertFails, Restart, IInv, TypeOK
  <2>3. \/ UNCHANGED <<emission, rows>>
        \/ \E m \in Notes : Post(m) \/ InsertRow(m) \/ InsertFails(m) \/ Delete(m)
        \/ Restart
    BY DEF Next, EmissionStep, IssuerMoves, Receive, UpdateRead, PostPdf, UpdateStep,
      UpdateAsk, UpdateCompare, UpdateInvoice, UpdateNotice, UpdateWrite, UpdateEvent,
      UpdateReread, UpdateFails, JobStep, vars, issue
  <2> QED BY <2>1, <2>2, <2>3
<1> QED BY <1>1, <1>2, <1>3, <1>4, <1>5, <1>6

(* An emission leaves the rows up to the one that failed, in the order of   *)
(* the inserts: no event without an invoice and no second invoice without   *)
(* an event, and of the rows before it only the note can be missing, once   *)
(* deleted (nfse.service.js:386-415).                                       *)
THEOREM RowsAreInOrder == Spec => []RowsInOrder
<1>1. Init => RowsInOrder
  <2> SUFFICES ASSUME Init, NEW n \in Notes PROVE InOrder(n)
    BY DEF RowsInOrder
  <2>1. emission[n] = "idle" /\ rows[n] = {}
    BY DEF Init
  <2> QED BY <2>1, BeforeFacts DEF InOrder, RowsAre
<1> QED BY Invariance, NextRows, <1>1, PTL DEF Spec

(* An invoice without its note, whose emission is over and which no request *)
(* that read the note earlier is still at work on.                          *)
Orphan(n) ==
  /\ emission[n] = "error" /\ "nfse" \notin rows[n]
  /\ \A r \in Requests :
       note[r] = n => pc[r] \notin Updating /\ job[r] \notin {"check", "save"}

StaysAsItIs(n) ==
  UNCHANGED <<emission[n], rows[n], invoice[n], events[n]>> /\ (n \in pdf' <=> n \in pdf)

OrphansStay == [][\A n \in Notes : Orphan(n) => Orphan(n)' /\ StaysAsItIs(n)]_vars

LEMMA StepLeavesOrphan ==
  ASSUME IInv, Fresh, [Next]_vars, NEW n \in Notes, Orphan(n)
  PROVE  Orphan(n)' /\ StaysAsItIs(n)
<1> USE DEF IInv, TypeOK, Places, Orphan, StaysAsItIs
<1>1. ASSUME NEW m \in Notes, IssuerMoves(m) \/ Post(m) \/ EmissionStep(m) \/ Delete(m)
      PROVE  Orphan(n)' /\ StaysAsItIs(n)
  <2>1. UNCHANGED <<pc, note, job, events, pdf>>
    BY <1>1 DEF IssuerMoves, Post, EmissionStep, InsertRow, InsertFails, Delete, record, call
  <2>2. UNCHANGED <<emission[n], rows[n], invoice[n]>>
    BY <1>1 DEF IssuerMoves, Post, EmissionStep, InsertRow, InsertFails, Delete, record,
      Emitting
  <2> QED BY <2>1, <2>2
<1>2. ASSUME NEW r \in Requests, Receive(r) PROVE Orphan(n)' /\ StaysAsItIs(n)
  <2>1. UNCHANGED <<emission, rows, invoice, events, pdf>>
    BY <1>2 DEF Receive, UpdateRead, PostPdf, issue, record
  <2>2. \A q \in Requests \ {r} : UNCHANGED <<note[q], pc[q], job[q]>>
    BY <1>2 DEF Receive, UpdateRead, PostPdf, Goto
  <2>3. PICK m \in Notes : UpdateRead(r, m) \/ PostPdf(r, m)
    BY <1>2 DEF Receive
  <2>4. note'[r] = n => pc'[r] \notin Updating
    BY <2>3 DEF UpdateRead, PostPdf, Goto, Updating, AfterStatus
  <2>5. job'[r] \in {"none", "find"}
    BY <2>3 DEF UpdateRead, PostPdf, Fresh
  <2> QED BY <2>1, <2>2, <2>4, <2>5
<1>3. ASSUME NEW r \in Requests, UpdateStep(r) PROVE Orphan(n)' /\ StaysAsItIs(n)
  <2>1. pc[r] \in Updating /\ note[r] # n
    BY <1>3 DEF UpdateStep, UpdateAsk, UpdateCompare, UpdateInvoice, UpdateNotice,
      UpdateWrite, UpdateEvent, UpdateReread, UpdateFails, Updating, AfterStatus
  <2>2. UNCHANGED <<emission, rows, pdf, note>>
    BY <1>3 DEF UpdateStep, UpdateAsk, UpdateCompare, UpdateInvoice, UpdateNotice,
      UpdateWrite, UpdateEvent, UpdateReread, UpdateFails, issue, record, call
  <2>3. \A q \in Requests \ {r} : UNCHANGED <<pc[q], job[q]>>
    BY <1>3 DEF UpdateStep, UpdateAsk, UpdateCompare, UpdateInvoice, UpdateNotice,
      UpdateWrite, UpdateEvent, UpdateReread, UpdateFails, Goto, StartJob
  <2>4. UNCHANGED <<invoice[n], events[n]>>
    BY <1>3, <2>1 DEF UpdateStep, UpdateAsk, UpdateCompare, UpdateInvoice, UpdateNotice,
      UpdateWrite, UpdateEvent, UpdateReread, UpdateFails, record
  <2> QED BY <2>1, <2>2, <2>3, <2>4
<1>4. ASSUME NEW r \in Requests, JobStep(r) PROVE Orphan(n)' /\ StaysAsItIs(n)
  <2>1. UNCHANGED <<emission, rows, invoice, events, note>>
    BY <1>4 DEF JobStep, issue, call
  <2>2. /\ \A q \in Requests \ {r} : UNCHANGED <<pc[q], job[q]>>
        /\ pc'[r] \in Updating => pc[r] \in Updating
    BY <1>4 DEF JobStep, JobEnds, Updating, AfterStatus
  <2>3. note[r] = n => job[r] = "find" /\ job'[r] = "failed" /\ UNCHANGED pdf
    BY <1>4 DEF JobStep, JobEnds, Working
  <2>4. note[r] # n => (n \in pdf' <=> n \in pdf)
    BY <1>4 DEF JobStep
  <2> QED BY <2>1, <2>2, <2>3, <2>4
<1>5. CASE Restart
  BY <1>5 DEF Restart, Emitting, Updating, AfterStatus, Working, record, call
<1>6. CASE UNCHANGED vars
  BY <1>6 DEF vars, issue, record, call
<1> QED BY <1>1, <1>2, <1>3, <1>4, <1>5, <1>6 DEF Next

(* An invoice that has lost its note, or never got one because the insert   *)
(* failed, is never touched again: its status stays "processando", or what  *)
(* it was, whatever the issuer does, as every update begins by joining the  *)
(* note (nfse.service.js:386-415, 1095, 1372).                              *)
THEOREM OrphansStayAsTheyAre == Spec => OrphansStay
<1>1. IInv /\ Fresh /\ [Next]_vars =>
        [\A n \in Notes : Orphan(n) => Orphan(n)' /\ StaysAsItIs(n)]_vars
  BY StepLeavesOrphan
<1>2. Init => Fresh
  BY DEF Init, Fresh
<1> QED BY Invariance, NextFresh, <1>1, <1>2, PTL DEF Spec, OrphansStay

----------------------------------------------------------------------------
(* The PDF of an authorised note.                                           *)

(* The emission of this note is past the insert of its row.                 *)
PastNote(n) == emission[n] \notin {"idle", "invoice", "nfse"}

NotePlaced ==
  /\ \A n \in Notes : "nfse" \in rows[n] \/ invoice[n] = "autorizada" => PastNote(n)
  /\ \A r \in Requests : pc[r] \in Updating => PastNote(note[r])

(* The update has been told that the note is authorised.                    *)
Told(r, n) == note[r] = n /\ seen[r] = "autorizada"

(* The authorisation is in the row, or an update has yet to write it again. *)
Noted(n) ==
  \/ invoice[n] = "autorizada"
  \/ \E r \in Requests : Told(r, n) /\ pc[r] \in {"notice", "write"}

(* A job is at work on the PDF, or an update is about to start one.         *)
InHand(n) ==
  \E r \in Requests :
    \/ note[r] = n /\ job[r] \in Working
    \/ Told(r, n) /\ pc[r] = "notice"

(* The PDF is there, or has become impossible, or a failure is to blame.    *)
Excused(n) ==
  n \in pdf \cup lost \cup cut \/ remote[n] = "cancelada" \/ "nfse" \notin rows[n]

PdfInHand == \A n \in Notes : invoice[n] = "autorizada" => InHand(n) \/ Excused(n)

(* PdfInHand holds before the row shows the authorisation a second time.    *)
NotedInHand == \A n \in Notes : Noted(n) => InHand(n) \/ Excused(n)

LEMMA NextNotePlaced == IInv /\ NotePlaced /\ [Next]_vars => NotePlaced'
<1> SUFFICES ASSUME IInv, NotePlaced, [Next]_vars PROVE NotePlaced'
  OBVIOUS
<1> USE DEF IInv, TypeOK, NotePlaced, PastNote
<1>0. \A n \in Notes : PastNote(n) => PastNote(n)'
  <2>1. ASSUME NEW m \in Notes, Post(m) \/ InsertRow(m) \/ InsertFails(m)
        PROVE  \A n \in Notes : PastNote(n) => PastNote(n)'
    <3>1. \A n \in Notes \ {m} : emission'[n] = emission[n]
      BY <2>1 DEF Post, InsertRow, InsertFails
    <3>2. PastNote(m) => emission'[m] \in {"event", "invoice2", "nfse2", "error"}
      BY <2>1 DEF Post, InsertRow, InsertFails, AfterInsert, Emitting
    <3> QED BY <3>1, <3>2
  <2>2. CASE Restart
    BY <2>2 DEF Restart
  <2>3. \/ UNCHANGED emission \/ Restart
        \/ \E m \in Notes : Post(m) \/ InsertRow(m) \/ InsertFails(m)
    BY DEF Next, EmissionStep, IssuerMoves, Delete, Receive, UpdateRead, PostPdf,
      UpdateStep, UpdateAsk, UpdateCompare, UpdateInvoice, UpdateNotice, UpdateWrite,
      UpdateEvent, UpdateReread, UpdateFails, JobStep, vars, issue
  <2> QED BY <2>1, <2>2, <2>3
<1>1. ASSUME NEW n \in Notes, "nfse" \in rows'[n] PROVE PastNote(n)'
  <2>1. ASSUME NEW m \in Notes, InsertRow(m), "nfse" \notin rows[n] PROVE PastNote(n)'
    <3>1. m = n /\ emission[m] = "nfse"
      BY <1>1, <2>1 DEF InsertRow
    <3> QED BY <2>1, <3>1 DEF InsertRow, AfterInsert
  <2>2. ASSUME NEW m \in Notes, Delete(m) PROVE "nfse" \in rows[n]
    BY <1>1, <2>2 DEF Delete
  <2>3. \/ UNCHANGED rows
        \/ \E m \in Notes : InsertRow(m) \/ Delete(m)
    BY DEF Next, EmissionStep, IssuerMoves, Post, InsertFails, Receive, UpdateRead,
      PostPdf, UpdateStep, UpdateAsk, UpdateCompare, UpdateInvoice, UpdateNotice,
      UpdateWrite, UpdateEvent, UpdateReread, UpdateFails, JobStep, Restart, vars, issue
  <2> QED BY <1>0, <1>1, <2>1, <2>2, <2>3
<1>2. ASSUME NEW n \in Notes, invoice'[n] = "autorizada" PROVE PastNote(n)'
  <2>1. ASSUME NEW m \in Notes, InsertRow(m) PROVE invoice[n] = "autorizada"
    BY <1>2, <2>1 DEF InsertRow
  <2>2. ASSUME NEW r \in Requests, UpdateInvoice(r) \/ UpdateWrite(r)
        PROVE  invoice[n] = "autorizada" \/ (note[r] = n /\ pc[r] \in Updating)
    BY <1>2, <2>2 DEF UpdateInvoice, UpdateWrite, Updating, AfterStatus
  <2>3. \/ UNCHANGED invoice
        \/ \E m \in Notes : InsertRow(m)
        \/ \E r \in Requests : UpdateInvoice(r) \/ UpdateWrite(r)
    BY DEF Next, EmissionStep, IssuerMoves, Post, InsertFails, Delete, Receive,
      UpdateRead, PostPdf, UpdateStep, UpdateAsk, UpdateCompare, UpdateNotice,
      UpdateEvent, UpdateReread, UpdateFails, JobStep, Restart, vars, record
  <2> QED BY <1>0, <1>2, <2>1, <2>2, <2>3
<1>3. ASSUME NEW r \in Requests, pc'[r] \in Updating PROVE PastNote(note[r])'
  <2>1. CASE pc[r] \in Updating /\ note'[r] = note[r]
    BY <1>0, <2>1 DEF Places
  <2>2. ASSUME NEW n \in Notes, UpdateRead(r, n) PROVE PastNote(note[r])'
    BY <1>0, <1>3, <2>2 DEF UpdateRead, Goto, Updating, AfterStatus
  <2>3. \/ pc[r] \in Updating /\ note'[r] = note[r]
        \/ \E n \in Notes : UpdateRead(r, n)
    <3>1. ASSUME NEW q \in Requests, NEW n \in Notes, UpdateRead(q, n) \/ PostPdf(q, n)
          PROVE  \/ pc[r] \in Updating /\ note'[r] = note[r]
                 \/ \E m \in Notes : UpdateRead(r, m)
      BY <1>3, <3>1 DEF UpdateRead, PostPdf, Goto, Updating, AfterStatus
    <3>2. ASSUME NEW q \in Requests, UpdateStep(q)
          PROVE  pc[r] \in Updating /\ note'[r] = note[r]
      BY <1>3, <3>2 DEF UpdateStep, UpdateAsk, UpdateCompare, UpdateInvoice,
        UpdateNotice, UpdateWrite, UpdateEvent, UpdateReread, UpdateFails, Goto, call,
        Updating, AfterStatus
    <3>3. ASSUME NEW q \in Requests, JobStep(q)
          PROVE  pc[r] \in Updating /\ note'[r] = note[r]
      BY <1>3, <3>3 DEF JobStep, JobEnds, call, Updating, AfterStatus
    <3>4. CASE Restart
      BY <1>3, <3>4 DEF Restart, call, Updating, AfterStatus
    <3>5. CASE \/ UNCHANGED vars
               \/ \E n \in Notes : IssuerMoves(n) \/ Post(n) \/ EmissionStep(n) \/ Delete(n)
      BY <1>3, <3>5 DEF vars, IssuerMoves, Post, EmissionStep, InsertRow, InsertFails,
        Delete, call
    <3> QED BY <3>1, <3>2, <3>3, <3>4, <3>5 DEF Next, Receive
  <2> QED BY <2>1, <2>2, <2>3
<1> QED BY <1>1, <1>2, <1>3 DEF PastNote

(* An excuse stays one: no note is inserted a second time.                  *)
LEMMA ExcuseStays ==
  ASSUME IInv, [Next]_vars, NEW n \in Notes, PastNote(n), Excused(n)
  PROVE  Excused(n)'
<1> USE DEF IInv, TypeOK
<1>1. remote[n] = "cancelada" => remote'[n] = "cancelada"
  <2>1. ASSUME NEW m \in Notes, IssuerMoves(m) \/ Post(m)
        PROVE  remote[n] = "cancelada" => remote'[n] = "cancelada"
    BY <2>1 DEF IssuerMoves, Post, PastNote
  <2>2. UNCHANGED remote \/ \E m \in Notes : IssuerMoves(m) \/ Post(m)
    BY DEF Next, EmissionStep, InsertRow, InsertFails, Delete, Receive, UpdateRead,
      PostPdf, UpdateStep, UpdateAsk, UpdateCompare, UpdateInvoice, UpdateNotice,
      UpdateWrite, UpdateEvent, UpdateReread, UpdateFails, JobStep, Restart, vars, issue
  <2> QED BY <2>1, <2>2
<1>2. "nfse" \notin rows[n] => "nfse" \notin rows'[n]
  <2>1. ASSUME NEW m \in Notes, InsertRow(m) \/ Delete(m)
        PROVE  "nfse" \notin rows[n] => "nfse" \notin rows'[n]
    BY <2>1 DEF InsertRow, Delete, PastNote
  <2>2. UNCHANGED rows \/ \E m \in Notes : InsertRow(m) \/ Delete(m)
    BY DEF Next, EmissionStep, IssuerMoves, Post, InsertFails, Receive, UpdateRead,
      PostPdf, UpdateStep, UpdateAsk, UpdateCompare, UpdateInvoice, UpdateNotice,
      UpdateWrite, UpdateEvent, UpdateReread, UpdateFails, JobStep, Restart, vars, issue
  <2> QED BY <2>1, <2>2
<1>3. pdf \subseteq pdf' /\ lost \subseteq lost' /\ cut \subseteq cut'
  BY DEF Next, EmissionStep, IssuerMoves, Post, InsertRow, InsertFails, Delete,
    Receive, UpdateRead, PostPdf, UpdateStep, UpdateAsk, UpdateCompare, UpdateInvoice,
    UpdateNotice, UpdateWrite, UpdateEvent, UpdateReread, UpdateFails, Cut, JobStep,
    Restart, vars, record, history
<1> QED BY <1>1, <1>2, <1>3 DEF Excused

(* Who notes an authorisation has started the job, or is about to.          *)
LEMMA NotedBy ==
  ASSUME IInv, NotedInHand, [Next]_vars, NEW n \in Notes, Noted(n)', ~Noted(n)
  PROVE  InHand(n)'
<1> USE DEF IInv, TypeOK, Places
<1>0. invoice[n] # "autorizada"
  BY DEF Noted
<1>1. ASSUME NEW r \in Requests, UpdateInvoice(r) PROVE InHand(n)'
  <2>1. /\ UNCHANGED <<note, seen>> /\ pc[r] = "invoice"
        /\ invoice' = [invoice EXCEPT ![note[r]] = seen[r]]
        /\ \A q \in Requests \ {r} : pc'[q] = pc[q]
    BY <1>1 DEF UpdateInvoice, Goto, call
  <2>2. Told(r, n)
    BY <1>0, <2>1 DEF Noted, Told
  <2>3. pc'[r] = "notice" \/ job'[r] = "find"
    BY <1>1, <2>2 DEF UpdateInvoice, Goto, StartJob, Told
  <2> QED BY <2>1, <2>2, <2>3 DEF InHand, Told, Working
<1>2. ASSUME NEW r \in Requests, UpdateWrite(r) PROVE FALSE
  <2>1. /\ UNCHANGED <<note, seen>> /\ pc[r] = "write"
        /\ \A q \in Requests : pc'[q] \in {"notice", "write"} => pc'[q] = pc[q]
        /\ invoice' = [invoice EXCEPT ![note[r]] = seen[r]] \/ UNCHANGED invoice
    BY <1>2 DEF UpdateWrite, Goto, call
  <2> QED BY <1>0, <2>1 DEF Noted, Told
<1>3. ASSUME NEW r \in Requests, UpdateNotice(r) PROVE FALSE
  <2>1. /\ UNCHANGED <<note, seen, invoice>> /\ pc[r] = "notice"
        /\ \A q \in Requests \ {r} : pc'[q] = pc[q]
    BY <1>3 DEF UpdateNotice, Goto, call
  <2> QED BY <1>0, <2>1 DEF Noted, Told
<1>4. ASSUME NEW r \in Requests, UpdateCompare(r) PROVE FALSE
  <2>1. /\ UNCHANGED <<note, seen, invoice>>
        /\ \A q \in Requests \ {r} : pc'[q] = pc[q]
        /\ pc'[r] \in {"notice", "write"} => seen[r] # "autorizada"
    BY <1>4 DEF UpdateCompare, Goto, call, record
  <2> QED BY <1>0, <2>1 DEF Noted, Told
<1>5. ASSUME invoice'[n] \in {invoice[n], "processando"},
             \A r \in Requests : pc'[r] \in {"notice", "write"} =>
               UNCHANGED <<pc[r], note[r], seen[r]>>
      PROVE  FALSE
  BY <1>0, <1>5 DEF Noted, Told
<1>6. ASSUME NEW r \in Requests,
             \/ UpdateAsk(r) \/ UpdateEvent(r) \/ UpdateReread(r) \/ UpdateFails(r)
             \/ JobStep(r) \/ Receive(r)
      PROVE  FALSE
  <2>1. UNCHANGED invoice
    BY <1>6 DEF UpdateAsk, UpdateEvent, UpdateReread, UpdateFails, JobStep, Receive,
      UpdateRead, PostPdf, record
  <2>2. \A q \in Requests : pc'[q] \in {"notice", "write"} =>
          UNCHANGED <<pc[q], note[q], seen[q]>>
    BY <1>6 DEF UpdateAsk, UpdateEvent, UpdateReread, UpdateFails, JobStep, JobEnds,
      Receive, UpdateRead, PostPdf, Goto, call
  <2> QED BY <1>5, <2>1, <2>2
<1>7. CASE \/ UNCHANGED vars \/ Restart
           \/ \E m \in Notes : IssuerMoves(m) \/ Post(m) \/ EmissionStep(m) \/ Delete(m)
  <2>1. invoice'[n] \in {invoice[n], "processando"}
    BY <1>7 DEF IssuerMoves, Post, EmissionStep, InsertRow, InsertFails, Delete,
      Restart, vars, record
  <2>2. \A q \in Requests : pc'[q] \in {"notice", "write"} =>
          UNCHANGED <<pc[q], note[q], seen[q]>>
    BY <1>7 DEF IssuerMoves, Post, EmissionStep, InsertRow, InsertFails, Delete,
      Restart, vars, call
  <2> QED BY <1>5, <2>1, <2>2
<1> QED BY <1>1, <1>2, <1>3, <1>4, <1>6, <1>7 DEF Next, UpdateStep

(* What is in hand stays so until there is the PDF, or an excuse.           *)
LEMMA HandStays ==
  ASSUME IInv, Fresh, ShownWasIssued, Carried, [Next]_vars,
         NEW n \in Notes, Noted(n), InHand(n)
  PROVE  InHand(n)' \/ Excused(n)'
<1> USE DEF IInv, TypeOK, Places
<1>0. remote[n] \in {"autorizada", "cancelada"}
  <2>1. "autorizada" \in Been[remote[n]]
    BY DEF Noted, Told, ShownWasIssued, Carried, Asked, Updating, AfterStatus
  <2> QED BY <2>1 DEF Been, Statuses
<1>p. PICK r \in Requests :
        \/ note[r] = n /\ job[r] \in Working
        \/ Told(r, n) /\ pc[r] = "notice"
  BY DEF InHand
<1>1. CASE UNCHANGED <<pc[r], job[r], note[r], seen[r]>>
  BY <1>p, <1>1 DEF InHand, Told
<1>2. ASSUME Receive(r) PROVE FALSE
  BY <1>2, <1>p DEF Receive, UpdateRead, PostPdf, Fresh, Working
<1>3. CASE JobStep(r)
  <2>1. note[r] = n /\ note' = note /\ seen' = seen
    BY <1>3, <1>p DEF JobStep, call, Told
  <2>2. CASE job'[r] \in Working
    BY <2>1, <2>2 DEF InHand
  <2>3. CASE job[r] = "find" /\ job'[r] \notin Working
    <3>1. n \in lost' \/ "nfse" \notin rows'[n]
      BY <1>3, <2>1, <2>3 DEF JobStep, JobEnds, Working, issue
    <3> QED BY <3>1 DEF Excused
  <2>4. CASE job[r] = "check" /\ job'[r] \notin Working
    <3>1. n \in lost' \/ remote'[n] = "cancelada"
      BY <1>0, <1>3, <2>1, <2>4 DEF JobStep, JobEnds, Working, issue
    <3> QED BY <3>1 DEF Excused
  <2>5. CASE job[r] = "save"
    <3>1. n \in lost' \/ n \in pdf'
      BY <1>3, <2>1, <2>5 DEF JobStep, JobEnds, Working
    <3> QED BY <3>1 DEF Excused
  <2>6. job[r] \in {"find", "check", "save"}
    BY <1>3 DEF JobStep, Working
  <2> QED BY <2>2, <2>3, <2>4, <2>5, <2>6
<1>4. CASE UpdateStep(r)
  <2>1. UNCHANGED <<note[r]>> /\ (job[r] \in Working => job'[r] \in Working)
    BY <1>4 DEF UpdateStep, UpdateAsk, UpdateCompare, UpdateInvoice, UpdateNotice,
      UpdateWrite, UpdateEvent, UpdateReread, UpdateFails, StartJob, call, Working
  <2>2. CASE job[r] \in Working
    <3>1. note[r] = n
      BY <1>p DEF Told
    <3> QED BY <2>1, <2>2, <3>1 DEF InHand
  <2>3. CASE Told(r, n) /\ pc[r] = "notice"
    <3>1. UpdateNotice(r) \/ UpdateFails(r)
      BY <1>4, <2>3 DEF UpdateStep, UpdateAsk, UpdateCompare, UpdateInvoice,
        UpdateWrite, UpdateEvent, UpdateReread
    <3>2. CASE UpdateNotice(r)
      <4>1. job'[r] = "find" \/ n \in cut'
        BY <2>3, <3>2 DEF UpdateNotice, StartJob, Cut, Told
      <4> QED BY <2>1, <2>3, <4>1 DEF InHand, Excused, Told, Working
    <3>3. CASE UpdateFails(r)
      <4>1. n \in cut'
        BY <2>3, <3>3 DEF UpdateFails, Cut, Told, AfterStatus
      <4> QED BY <4>1 DEF Excused
    <3> QED BY <3>1, <3>2, <3>3
  <2> QED BY <1>p, <2>2, <2>3
<1>5. CASE Restart
  <2>1. n \in lost' \/ n \in cut'
    BY <1>p, <1>5 DEF Restart, Told, AfterStatus
  <2> QED BY <2>1 DEF Excused
<1>6. \/ UNCHANGED <<pc[r], job[r], note[r], seen[r]>>
      \/ Receive(r) \/ JobStep(r) \/ UpdateStep(r) \/ Restart
  <2>1. ASSUME NEW q \in Requests, q # r, Receive(q) \/ UpdateStep(q) \/ JobStep(q)
        PROVE  UNCHANGED <<pc[r], job[r], note[r], seen[r]>>
    BY <2>1 DEF Receive, UpdateRead, PostPdf, UpdateStep, UpdateAsk, UpdateCompare,
      UpdateInvoice, UpdateNotice, UpdateWrite, UpdateEvent, UpdateReread,
      UpdateFails, JobStep, JobEnds, Goto, StartJob, call
  <2>2. CASE \/ UNCHANGED vars
             \/ \E m \in Notes : IssuerMoves(m) \/ Post(m) \/ EmissionStep(m) \/ Delete(m)
    BY <2>2 DEF IssuerMoves, Post, EmissionStep, InsertRow, InsertFails, Delete, vars, call
  <2> QED BY <2>1, <2>2 DEF Next
<1> QED BY <1>1, <1>2, <1>3, <1>4, <1>5, <1>6

(* An authorisation that is shown has its PDF, or a job at work on it, or   *)
(* an update about to start one; otherwise a failure, a restart or a        *)
(* deletion came in between, or the issuer has cancelled the note: nothing  *)
(* else leaves a note without its PDF (nfse.service.js:1170). This is       *)
(* PdfFollows without the fairness.                                         *)
THEOREM AuthorisationsAreInHand == Spec => []PdfInHand
<1>1. Init => NotePlaced /\ NotedInHand
  BY DEF Init, NotePlaced, PastNote, NotedInHand, Noted, Updating, AfterStatus
<1>2. Init => Fresh /\ ShownWasIssued /\ Carried
  BY BeenFacts DEF Init, Fresh, ShownWasIssued, Carried, Asked, Updating, AfterStatus
<1>3. IInv /\ (Fresh /\ ShownWasIssued /\ Carried) /\ [Next]_vars =>
        (Fresh /\ ShownWasIssued /\ Carried)'
  BY NextFresh, NextIssued
<1>4. IInv /\ (Fresh /\ ShownWasIssued /\ Carried) /\ NotePlaced /\ NotedInHand
        /\ [Next]_vars => NotedInHand'
  <2> SUFFICES ASSUME IInv, Fresh, ShownWasIssued, Carried, NotePlaced, NotedInHand,
                      [Next]_vars, NEW n \in Notes, Noted(n)'
               PROVE  InHand(n)' \/ Excused(n)'
    BY DEF NotedInHand
  <2>1. CASE ~Noted(n)
    BY <2>1, NotedBy
  <2>2. CASE Noted(n) /\ InHand(n)
    BY <2>2, HandStays
  <2>3. CASE Noted(n) /\ Excused(n)
    <3>1. PastNote(n)
      BY <2>3 DEF NotePlaced, Noted, Told, Updating, AfterStatus
    <3> QED BY <2>3, <3>1, ExcuseStays
  <2> QED BY <2>1, <2>2, <2>3 DEF NotedInHand
<1>5. NotedInHand => PdfInHand
  BY DEF NotedInHand, PdfInHand, Noted
<1> QED BY Invariance, NextNotePlaced, <1>1, <1>2, <1>3, <1>4, <1>5, PTL DEF Spec
=============================================================================
