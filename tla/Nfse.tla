---------------------------------- MODULE Nfse ----------------------------------
(* Service invoices (NFS-e) of finance-api: their emission at the issuer and *)
(* what is kept of them here, requests that fetch the issuer's status, that  *)
(* store the PDF and that delete. No statement is part of a transaction; one *)
(* that raises may have written (config/database.js:36-37): it is its own    *)
(* step and then a failure, or an alternative of that step.                  *)
EXTENDS Naturals

CONSTANTS
  Notes,        \* emissions, each of which has at most one note issued
  Requests,     \* requests about notes: update or PDF
  MaxRestarts   \* bound: restarts of the process

ASSUME RestartsAssumption == MaxRestarts \in Nat

Statuses == {"processando", "autorizada", "erro", "cancelada"}

(* How far a note with this status has come at the issuer.                  *)
Age == [s \in Statuses \cup {"none"} |->
          CASE s = "none" -> 0 [] s = "processando" -> 1
            [] s = "cancelada" -> 3 [] OTHER -> 2]

VARIABLES
  remote,    \* the status of a note at the issuer
  emission,  \* the await at which an emission stands
  rows,      \* the rows it has inserted
  invoice,   \* invoices.status of a note's first invoice
  events,    \* statuses of the ATUALIZACAO_STATUS_NFSE events of a note
  pdf,       \* notes whose invoice has a pdf_url
  pc,        \* the await at which a request stands
  note,      \* the note it is about
  local,     \* update: nfseLocal, the status read here,
  seen,      \* and nfseRemota, the status read at the issuer
  job,       \* the PDF job that a request has started
  overlapped,\* history: notes that had two updates at the same time
  cut,       \* history: notes with an update that failed after it had written
  lost,      \* history: notes with a PDF job that failed
  restarts

issue == <<remote, emission, rows>>
record == <<invoice, events, pdf>>
call == <<note, local, seen>>
history == <<overlapped, cut, lost>>
vars == <<issue, record, pc, call, job, history, restarts>>

(* The inserts of emitirNfseNuvemFiscal, and those of criarNfse after them. *)
FirstRows == {"invoice", "nfse", "event"}
SecondRows == {"invoice2", "nfse2"}
Emitting == FirstRows \cup SecondRows
AfterStatus == {"notice", "write", "event"}
Updating == {"remote", "last", "invoice", "reread"} \cup AfterStatus
Working == {"find", "check", "save"}

----------------------------------------------------------------------------
Init ==
  /\ remote = [n \in Notes |-> "none"]
  /\ emission = [n \in Notes |-> "idle"]
  /\ rows = [n \in Notes |-> {}]
  /\ invoice = [n \in Notes |-> "none"]
  /\ events = [n \in Notes |-> {}]
  /\ pdf = {}
  /\ pc = [r \in Requests |-> "idle"]
  /\ note = [r \in Requests |-> "none"]
  /\ local = [r \in Requests |-> "none"]
  /\ seen = [r \in Requests |-> "none"]
  /\ job = [r \in Requests |-> "none"]
  /\ overlapped = {} /\ cut = {} /\ lost = {}
  /\ restarts = 0

Goto(r, step) == pc' = [pc EXCEPT ![r] = step]
Cut(r) == cut' = cut \cup {note[r]}

----------------------------------------------------------------------------
(* The issuer.                                                              *)

(* What the issuer does with a note after taking it in. A cancellation is   *)
(* made there: no route of the program asks for one.                        *)
IssuerMoves(n) ==
  /\ \/ /\ remote[n] = "processando"
        /\ \E s \in {"autorizada", "erro"} : remote' = [remote EXCEPT ![n] = s]
     \/ /\ remote[n] = "autorizada"
        /\ remote' = [remote EXCEPT ![n] = "cancelada"]
  /\ UNCHANGED <<emission, rows, record, pc, call, job, history, restarts>>

----------------------------------------------------------------------------
(* Emission: POST /movements/:id/nfse.                                      *)

(* The DPS is posted. The answer may be a refusal, or be lost. The issuer   *)
(* takes a DPS in as "processando", the one answer the repository knows     *)
(* (nuvem-fiscal-nfse-response-example.json:4, nfse.service.js:754): were   *)
(* one authorised at once, line 389 would store that, and no update would   *)
(* ever find a change of status to start the PDF job with.                  *)
Post(n) ==
  /\ emission[n] = "idle"
  /\ \/ /\ remote' = [remote EXCEPT ![n] = "processando"]
        /\ \E step \in {"invoice", "error"} :
             emission' = [emission EXCEPT ![n] = step]
     \/ emission' = [emission EXCEPT ![n] = "error"] /\ UNCHANGED remote
  /\ UNCHANGED <<rows, record, pc, call, job, history, restarts>>

(* Mutant: an emission ends well.                                           *)
AfterInsertOk ==
  [invoice |-> "nfse", nfse |-> "event", event |-> "invoice2",
   invoice2 |-> "nfse2", nfse2 |-> "ok"]

(* The step after an insert. The first three are in the callback of a       *)
(* transaction, but run through the pool and commit one by one. A second    *)
(* invoice and note follow, and then the service reads a field its result   *)
(* does not have: an emission never ends without an error.                  *)
AfterInsert ==
  [invoice |-> "nfse", nfse |-> "event", event |-> "invoice2",
   invoice2 |-> "nfse2", nfse2 |-> "error"]

Insert(n) ==
  /\ rows' = [rows EXCEPT ![n] = @ \cup {emission[n]}]
  /\ emission' = [emission EXCEPT ![n] = AfterInsert[@]]
  /\ UNCHANGED <<remote, events, pdf, pc, call, job, history, restarts>>

(* The first invoice has the status of the issuer's answer.                 *)
InsertFirst(n) ==
  /\ emission[n] \in FirstRows /\ Insert(n)
  /\ invoice' = IF emission[n] = "invoice"
                  THEN [invoice EXCEPT ![n] = "processando"] ELSE invoice

(* criarNfse: an invoice and a note that nothing of the first refers to.    *)
InsertAgain(n) ==
  emission[n] \in SecondRows /\ Insert(n) /\ UNCHANGED invoice

InsertRow(n) == InsertFirst(n) \/ InsertAgain(n)

(* It fails. The rows before it stay, whatever the ROLLBACK.                *)
InsertFails(n) ==
  /\ emission[n] \in Emitting
  /\ emission' = [emission EXCEPT ![n] = "error"]
  /\ UNCHANGED <<remote, rows, record, pc, call, job, history, restarts>>

----------------------------------------------------------------------------
(* Update of the status: atualizarStatusNfse.                               *)

(* findById. A note not found is an error.                                  *)
UpdateRead(r, n) ==
  /\ pc[r] = "idle" /\ "invoice" \in rows[n]
  /\ note' = [note EXCEPT ![r] = n]
  /\ IF "nfse" \in rows[n]
       THEN /\ local' = [local EXCEPT ![r] = invoice[n]]
            /\ Goto(r, "remote")
            /\ overlapped' =
                 IF \E q \in Requests : pc[q] \in Updating /\ note[q] = n
                   THEN overlapped \cup {n} ELSE overlapped
       ELSE Goto(r, "error") /\ UNCHANGED <<local, overlapped>>
  /\ UNCHANGED <<issue, record, seen, job, cut, lost, restarts>>

(* consultarNfse.                                                           *)
UpdateAsk(r) ==
  /\ pc[r] = "remote"
  /\ seen' = [seen EXCEPT ![r] = remote[note[r]]]
  /\ Goto(r, "last")
  /\ UNCHANGED <<issue, record, note, local, job, history, restarts>>

(* Mutant: nothing is compared, the status is always written.               *)
UpdateCompareNever(r) ==
  /\ pc[r] = "last"
  /\ Goto(r, IF local[r] # seen[r] THEN "event" ELSE "reread")
  /\ UNCHANGED <<issue, record, call, job, history, restarts>>

(* The last event is looked for, and an error there is as good as none. The *)
(* two statuses decide, as they were read.                                  *)
UpdateCompare(r) ==
  /\ pc[r] = "last"
  /\ IF local[r] # seen[r]
       THEN Goto(r, IF seen[r] \in {"erro", "autorizada"} THEN "invoice" ELSE "write")
       ELSE \/ events[note[r]] # {} /\ Goto(r, "ok")
            \/ Goto(r, "event")
  /\ UNCHANGED <<issue, record, call, job, history, restarts>>

StartJob(r) == job' = [job EXCEPT ![r] = IF seen[r] = "autorizada" THEN "find" ELSE @]

(* Mutant: no PDF is made.                                                  *)
UpdateInvoiceNoPdf(r) ==
  /\ pc[r] = "invoice"
  /\ invoice' = [invoice EXCEPT ![note[r]] = seen[r]]
  /\ Goto(r, "write")
  /\ UNCHANGED <<issue, events, pdf, call, job, history, restarts>>

(* atualizarInvoiceNfse, for an error or an authorisation: the status, then *)
(* an event for the messages that the issuer may have sent. The PDF job is  *)
(* started when it has ended, and nobody awaits it.                         *)
UpdateInvoice(r) ==
  /\ pc[r] = "invoice"
  /\ invoice' = [invoice EXCEPT ![note[r]] = seen[r]]
  /\ \/ Goto(r, "notice") /\ UNCHANGED job
     \/ Goto(r, "write") /\ StartJob(r)
  /\ UNCHANGED <<issue, events, pdf, call, history, restarts>>

(* An event that is written, but raises, ends the update before the job.    *)
UpdateNotice(r) ==
  /\ pc[r] = "notice"
  /\ events' = [events EXCEPT ![note[r]] = @ \cup {seen[r]}]
  /\ \/ StartJob(r) /\ Goto(r, "write") /\ UNCHANGED cut
     \/ Goto(r, "error") /\ Cut(r) /\ UNCHANGED job
  /\ UNCHANGED <<issue, invoice, pdf, call, overlapped, lost, restarts>>

(* Mutant: the status is written and its event forgotten.                   *)
UpdateWriteNoEvent(r) ==
  /\ pc[r] = "write" /\ "nfse" \in rows[note[r]]
  /\ invoice' = [invoice EXCEPT ![note[r]] = seen[r]]
  /\ Goto(r, "reread")
  /\ UNCHANGED <<issue, events, pdf, call, job, history, restarts>>

(* Mutant: the row gets the status that was read here.                      *)
UpdateWriteLocal(r) ==
  /\ pc[r] = "write" /\ "nfse" \in rows[note[r]]
  /\ invoice' = [invoice EXCEPT ![note[r]] = local[r]]
  /\ Goto(r, "event")
  /\ UNCHANGED <<issue, events, pdf, call, job, history, restarts>>

(* updateStatus joins the note, which may have been deleted meanwhile.      *)
UpdateWrite(r) ==
  /\ pc[r] = "write"
  /\ IF "nfse" \in rows[note[r]]
       THEN /\ invoice' = [invoice EXCEPT ![note[r]] = seen[r]]
            /\ Goto(r, "event") /\ UNCHANGED cut
       ELSE Goto(r, "error") /\ Cut(r) /\ UNCHANGED invoice
  /\ UNCHANGED <<issue, events, pdf, call, job, overlapped, lost, restarts>>

(* The event of the status.                                                 *)
UpdateEvent(r) ==
  /\ pc[r] = "event"
  /\ events' = [events EXCEPT ![note[r]] = @ \cup {seen[r]}]
  /\ Goto(r, "reread")
  /\ UNCHANGED <<issue, invoice, pdf, call, job, history, restarts>>

(* The note is read once more, and the controller answers with its status.  *)
UpdateReread(r) ==
  /\ pc[r] = "reread"
  /\ Goto(r, IF "nfse" \in rows[note[r]] THEN "ok" ELSE "error")
  /\ UNCHANGED <<issue, record, call, job, history, restarts>>

(* A statement or a question to the issuer fails.                           *)
UpdateFails(r) ==
  /\ pc[r] \in Updating
  /\ Goto(r, "error")
  /\ IF pc[r] \in AfterStatus THEN Cut(r) ELSE UNCHANGED cut
  /\ UNCHANGED <<issue, record, call, job, overlapped, lost, restarts>>

UpdateStep(r) ==
  \/ UpdateAsk(r) \/ UpdateCompare(r) \/ UpdateInvoice(r) \/ UpdateNotice(r)
  \/ UpdateWrite(r) \/ UpdateEvent(r) \/ UpdateReread(r) \/ UpdateFails(r)

----------------------------------------------------------------------------
(* The PDF: processarPdfNfse, for an update or for POST /nfses/:id/pdf.     *)

PostPdf(r, n) ==
  /\ pc[r] = "idle" /\ "invoice" \in rows[n]
  /\ note' = [note EXCEPT ![r] = n]
  /\ job' = [job EXCEPT ![r] = "find"]
  /\ Goto(r, "pdf")
  /\ UNCHANGED <<issue, record, local, seen, history, restarts>>

(* The request that awaits the job, if one does, is answered.               *)
JobEnds(r, outcome) ==
  /\ job' = [job EXCEPT ![r] = outcome]
  /\ pc' = [pc EXCEPT ![r] = IF @ # "pdf" THEN @
                             ELSE IF outcome = "done" THEN "ok" ELSE "error"]

(* The job goes on when what it has read is as it must be, and fails if not *)
(* or when a statement, the download or the upload does.                    *)
JobStep(r) ==
  LET n == note[r]
      Passes == CASE job[r] = "find" -> "nfse" \in rows[n]
                  [] job[r] = "check" -> remote[n] = "autorizada"
                  [] OTHER -> TRUE
      After == [find |-> "check", check |-> "save"]
  IN /\ job[r] \in Working
     /\ \/ /\ Passes /\ job[r] # "save"
           /\ job' = [job EXCEPT ![r] = After[@]]
           /\ UNCHANGED <<pc, pdf, lost>>
        \/ /\ job[r] = "save"
           /\ pdf' = pdf \cup {n}
           /\ \/ JobEnds(r, "done") /\ UNCHANGED lost
              \/ JobEnds(r, "failed") /\ lost' = lost \cup {n}
        \/ /\ JobEnds(r, "failed")
           /\ lost' = IF Passes THEN lost \cup {n} ELSE lost
           /\ UNCHANGED pdf
     /\ UNCHANGED <<issue, invoice, events, call, overlapped, cut, restarts>>

----------------------------------------------------------------------------
(* DELETE /nfses/:id, a request of its own, at the moment it deletes: the   *)
(* note goes, its invoice and events stay.                                  *)
Delete(n) ==
  /\ "nfse" \in rows[n]
  /\ rows' = [rows EXCEPT ![n] = @ \ {"nfse"}]
  /\ UNCHANGED <<remote, emission, record, pc, call, job, history, restarts>>

(* The process is restarted: what was under way stops where it was.         *)
Restart ==
  /\ restarts < MaxRestarts /\ restarts' = restarts + 1
  /\ emission' = [n \in Notes |->
                    IF emission[n] \in Emitting THEN "error" ELSE emission[n]]
  /\ pc' = [r \in Requests |->
              IF pc[r] \in Updating \cup {"pdf"} THEN "error" ELSE pc[r]]
  /\ job' = [r \in Requests |-> IF job[r] \in Working THEN "failed" ELSE job[r]]
  /\ cut' = cut \cup {n \in Notes :
              \E r \in Requests : note[r] = n /\ pc[r] \in AfterStatus}
  /\ lost' = lost \cup {n \in Notes :
               \E r \in Requests : note[r] = n /\ job[r] \in Working}
  /\ UNCHANGED <<remote, rows, record, call, overlapped>>

Receive(r) == \E n \in Notes : UpdateRead(r, n) \/ PostPdf(r, n)

EmissionStep(n) == InsertRow(n) \/ InsertFails(n)

Next ==
  \/ \E n \in Notes : IssuerMoves(n) \/ Post(n) \/ EmissionStep(n) \/ Delete(n)
  \/ \E r \in Requests : Receive(r) \/ UpdateStep(r) \/ JobStep(r)
  \/ Restart

Spec == Init /\ [][Next]_vars

(* Statements and questions to the issuer end; nobody has to send a request *)
(* and the issuer need not move.                                            *)
Fairness ==
  /\ \A n \in Notes : WF_vars(EmissionStep(n))
  /\ \A r \in Requests : WF_vars(UpdateStep(r)) /\ WF_vars(JobStep(r))

FairSpec == Spec /\ Fairness

----------------------------------------------------------------------------
(* Every variable keeps its type.                                           *)
TypeOK ==
  /\ remote \in [Notes -> Statuses \cup {"none"}]
  /\ emission \in [Notes -> Emitting \cup {"idle", "error"}]
  /\ rows \in [Notes -> SUBSET Emitting]
  /\ invoice \in [Notes -> Statuses \cup {"none"}]
  /\ events \in [Notes -> SUBSET Statuses]
  /\ pdf \subseteq Notes
  /\ pc \in [Requests -> Updating \cup {"idle", "pdf", "ok", "error"}]
  /\ note \in [Requests -> Notes \cup {"none"}]
  /\ local \in [Requests -> Statuses \cup {"none"}]
  /\ seen \in [Requests -> Statuses \cup {"none"}]
  /\ job \in [Requests -> Working \cup {"none", "done", "failed"}]
  /\ overlapped \subseteq Notes /\ cut \subseteq Notes /\ lost \subseteq Notes
  /\ restarts \in 0 .. MaxRestarts

(* The status shown of a note never goes back, from cancelled to authorised *)
(* say, unless two updates of the note overlapped: the issuer is asked and  *)
(* the row written at different times (nfse.service.js:1066, 1199).         *)
NoRegression ==
  [][\A n \in Notes : Age[invoice'[n]] >= Age[invoice[n]] \/ n \in overlapped]_vars

(* A status shown of a note has its event, or an update is about to write   *)
(* the event, or one failed in between: as the status does not change a     *)
(* second time, no later update makes up for that (nfse.service.js:1117).   *)
StatusHasEvent ==
  \A n \in Notes :
    \/ invoice[n] \in {"none", "processando"} \cup events[n]
    \/ n \in cut
    \/ \E r \in Requests : note[r] = n /\ pc[r] \in AfterStatus /\ seen[r] = invoice[n]

(* An update that is answered with success leaves the status that the       *)
(* issuer gave it, changed or not, but for overlapping updates              *)
(* (nfse.service.js:1242).                                                  *)
AnswerIsRecorded ==
  [][\A r \in Requests :
       pc[r] \in Updating /\ pc'[r] = "ok" =>
         invoice'[note[r]] = seen[r] \/ note[r] \in overlapped]_vars

(* When the program has noted an authorisation its PDF follows, though the  *)
(* job runs on its own while other updates, PDF requests and deletions come *)
(* in between; a failure is the only excuse, since nothing starts the job a *)
(* second time (nfse.service.js:1170).                                      *)
PdfFollows ==
  \A n \in Notes :
    invoice[n] = "autorizada" ~>
      \/ n \in pdf \cup lost \cup cut
      \/ remote[n] = "cancelada"
      \/ "nfse" \notin rows[n]

=============================================================================
