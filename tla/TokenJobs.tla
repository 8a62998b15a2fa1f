------------------------------ MODULE TokenJobs ------------------------------
(***************************************************************************)
(* The token purse and the AI features it pays for.  A feature is charged  *)
(* before its job is queued (garment edits, outfits, reference analysis),  *)
(* after its queued job succeeded (body measurement from photos or video), *)
(* or around a synchronous call (size prediction, the shopping assistant,  *)
(* the vendor assistant with its free daily questions).  Queued jobs are   *)
(* run by a BullMQ worker, which runs a job of a stopped instance once     *)
(* more and fails it after that.                                           *)
(*                                                                         *)
(* spend and refund are one conditional findOneAndUpdate each; everything  *)
(* else is a chain of awaits, and every await is a boundary between two    *)
(* actions.                                                                *)
(***************************************************************************)
EXTENDS Integers, FiniteSets

CONSTANTS
    Holder,       \* customers and businesses, each with one purse
    Call,         \* requests for a feature
    Kind,         \* Kind[c]: the feature
    Payer,        \* Payer[c]: whose purse pays
    Price,        \* Price[c]: its token price in the platform settings
    Grant,        \* possible token balances at the start
    Funds,        \* the wallet balance of every holder at the start
    FreeDaily,    \* ASSISTANT_FREE_DAILY_QUERIES
    Mix,          \* which requests are made together in one behaviour
    TokenFaults,       \* which failures the environment may cause
    MaxCrashes    \* bound of the model: how many calls an instance's stop cuts off

\* edit stands for generate-outfit too: both charge, queue and refund alike.
Charged1st == {"edit", "analyze"}
Queued2nd == {"mask", "video"}
Feature == Charged1st \cup Queued2nd \cup {"predict", "ask", "chat", "purchase"}

ASSUME TokenAssumption ==
    /\ Kind \in [Call -> Feature]
    /\ Payer \in [Call -> Holder]
    /\ Price \in [Call -> Nat]
    /\ Grant \subseteq Nat /\ Funds \in Nat
    /\ FreeDaily \in Nat /\ MaxCrashes \in Nat
    /\ Mix \subseteq SUBSET Call
    /\ TokenFaults \subseteq {"queueDown", "dbError", "uploadFails"}

VARIABLES
    tokens,       \* tokens[h]: the purse of a holder
    money,        \* money[h]: the balance of its wallet, in prices of a token
    asked,        \* asked[h]: today's questions in the saved conversations
    req,          \* where each request's handler is
    job,          \* where the worker is with the request's job
    record,       \* the JobStatus document the customer polls
    again,        \* jobs the queue handed out a second time
    flushed,      \* jobs whose keys were flushed while a worker had them
    charged,      \* history: how often a call was charged
    refunded,     \* history: how often a call was refunded
    struck,       \* history: calls hit by an error or a flush no handler repairs
    cut,          \* history: calls cut off by an instance that stopped
    crashes

purse == <<tokens, charged, refunded>>
queue == <<job, again, flushed>>
stops == <<cut, crashes>>
tokenVars == <<purse, money, asked, req, queue, record, struck, stops>>

ReqState == {"absent", "new", "charge", "upload", "flush", "enqueue", "create", "predict",
             "meter", "talkFree", "talkPaid", "chatRefund", "ask", "chargeLast",
             "debit", "credit", "replied", "refused", "error", "dead"}
InRequest == ReqState \ {"absent", "new", "replied", "refused", "error", "dead"}
JobState == {"none", "waiting", "check", "generate", "chargeLast", "cleanup", "complete",
             "refund", "fail", "ack", "over"}
InWorker == JobState \ {"none", "waiting", "over"}

TokenTypeOK ==
    /\ tokens \in [Holder -> Int]
    /\ money \in [Holder -> Int]
    /\ asked \in [Holder -> Nat]
    /\ req \in [Call -> ReqState]
    /\ job \in [Call -> JobState]
    /\ record \in [Call -> {"none", "queued", "running", "completed", "failed"}]
    /\ again \subseteq Call /\ flushed \subseteq Call
    /\ struck \subseteq Call /\ cut \subseteq Call
    /\ charged \in [Call -> Nat] /\ refunded \in [Call -> Nat]
    /\ crashes \in Nat

TokenInit ==
    /\ tokens \in [Holder -> Grant]
    /\ money = [h \in Holder |-> Funds]
    /\ asked = [h \in Holder |-> 0]
    /\ \E M \in Mix : req = [c \in Call |-> IF c \in M THEN "new" ELSE "absent"]
    /\ job = [c \in Call |-> "none"]
    /\ record = [c \in Call |-> "none"]
    /\ again = {} /\ flushed = {} /\ struck = {} /\ cut = {}
    /\ charged = [c \in Call |-> 0] /\ refunded = [c \in Call |-> 0]
    /\ crashes = 0

-----------------------------------------------------------------------------
(* The purse                                                               *)

\* What balance() let a handler see.
Affords(c) == tokens[Payer[c]] >= Price[c]

\* Mutation: the update is by holder alone.
SpendsAnyway(c) == Price[c] >= 0

\* The filter tokens >= amount of spend's findOneAndUpdate.
CanSpend(c) == tokens[Payer[c]] >= Price[c]

Spend(c) ==
    /\ tokens' = [tokens EXCEPT ![Payer[c]] = @ - Price[c]]
    /\ charged' = [charged EXCEPT ![c] = @ + 1]
    /\ UNCHANGED refunded

Refund(c) ==
    /\ tokens' = [tokens EXCEPT ![Payer[c]] = @ + Price[c]]
    /\ refunded' = [refunded EXCEPT ![c] = @ + 1]
    /\ UNCHANGED charged

\* spend's record of the debit fails: the tokens are gone, the caller gets an error.
SpendUnanswered(c) == "dbError" \in TokenFaults /\ CanSpend(c) /\ Spend(c)

ReqGoes(c, pc) == req' = [req EXCEPT ![c] = pc]
JobGoes(c, pc) == job' = [job EXCEPT ![c] = pc]
Strike(S) == struck' = struck \cup S
Calm == UNCHANGED struck

-----------------------------------------------------------------------------
(* The requests                                                            *)

requestFrame == <<money, asked, stops>>

AfterCheck(c) == CASE Kind[c] \in Charged1st \cup {"predict"} -> "charge"
                   [] Kind[c] = "mask" -> "enqueue"
                   [] Kind[c] = "video" -> "flush"
                   [] OTHER -> "ask"

\* The controllers compare the balance first; the vendor assistant does not.
CheckBalance(c) ==
    /\ req[c] = "new"
    /\ Kind[c] \notin {"chat", "purchase"}
    /\ ReqGoes(c, IF Affords(c) THEN AfterCheck(c) ELSE "refused")
    /\ Calm /\ UNCHANGED <<requestFrame, purse, queue, record>>

\* chat and chatStream count today's saved questions before anything else.
Meter(c) ==
    /\ req[c] = "new"
    /\ Kind[c] = "chat"
    /\ ReqGoes(c, IF asked[Payer[c]] >= FreeDaily THEN "charge" ELSE "talkFree")
    /\ Calm /\ UNCHANGED <<requestFrame, purse, queue, record>>

AfterCharge(c) == CASE Kind[c] = "edit" -> "enqueue"
                    [] Kind[c] = "analyze" -> "upload"
                    [] Kind[c] = "predict" -> "predict"
                    [] OTHER -> "talkPaid"

ChargeFirst(c) ==
    /\ req[c] = "charge"
    /\ \/ CanSpend(c) /\ Spend(c) /\ ReqGoes(c, AfterCharge(c)) /\ Calm
       \/ ~CanSpend(c) /\ ReqGoes(c, "refused") /\ Calm /\ UNCHANGED purse
       \/ SpendUnanswered(c) /\ ReqGoes(c, "error") /\ Strike({c})
    /\ UNCHANGED <<requestFrame, queue, record>>

\* A reference photo is uploaded after the charge; an error is not answered.
Upload(c) ==
    /\ req[c] = "upload"
    /\ \/ ReqGoes(c, "enqueue") /\ Calm
       \/ "uploadFails" \in TokenFaults /\ ReqGoes(c, "error") /\ Strike({c})
    /\ UNCHANGED <<requestFrame, purse, queue, record>>

\* Every video request empties the whole Redis database first: waiting jobs are
\* gone, and a job a worker holds cannot be handed out again.
FlushRedis(c) ==
    LET waiting == {d \in Call : job[d] = "waiting"} IN
    /\ req[c] = "flush"
    /\ ReqGoes(c, "enqueue")
    /\ job' = [d \in Call |-> IF d \in waiting THEN "over" ELSE job[d]]
    /\ flushed' = flushed \cup {d \in Call : job[d] \in InWorker}
    /\ Strike(waiting)
    /\ UNCHANGED <<requestFrame, purse, again, record>>

Enqueue(c) ==
    /\ req[c] = "enqueue"
    /\ \/ ReqGoes(c, "create") /\ JobGoes(c, "waiting") /\ Calm
       \/ "queueDown" \in TokenFaults /\ ReqGoes(c, "error") /\ Strike({c}) /\ UNCHANGED job
    /\ UNCHANGED <<requestFrame, purse, again, flushed, record>>

\* The record is created after the job was queued, so a worker may have been
\* faster; the customer then polls a record that stays queued.
CreateRecord(c) ==
    /\ req[c] = "create"
    /\ \/ ReqGoes(c, "replied") /\ record' = [record EXCEPT ![c] = "queued"] /\ Calm
       \/ "dbError" \in TokenFaults /\ ReqGoes(c, "error") /\ Strike({c}) /\ UNCHANGED record
    /\ UNCHANGED <<requestFrame, purse, queue>>

\* The model's answer, or its failure: the charge stands either way.
Predict(c) ==
    /\ req[c] = "predict"
    /\ \E pc \in {"replied", "error"} : ReqGoes(c, pc)
    /\ Calm /\ UNCHANGED <<requestFrame, purse, queue, record>>

\* The vendor assistant answers and saves the conversation, or fails.
Talk(c) ==
    /\ req[c] \in {"talkFree", "talkPaid"}
    /\ \/ ReqGoes(c, "replied") /\ asked' = [asked EXCEPT ![Payer[c]] = @ + 1]
       \/ /\ ReqGoes(c, IF req[c] = "talkPaid" THEN "chatRefund" ELSE "error")
          /\ UNCHANGED asked
    /\ Calm /\ UNCHANGED <<purse, money, stops, queue, record>>

ChatRefund(c) ==
    /\ req[c] = "chatRefund"
    /\ ReqGoes(c, "error")
    /\ \/ Refund(c) /\ Calm
       \/ "dbError" \in TokenFaults /\ Strike({c}) /\ UNCHANGED purse
    /\ UNCHANGED <<requestFrame, queue, record>>

\* The shopping assistant and a style image: answered first, charged last.
Ask(c) ==
    /\ req[c] = "ask"
    /\ \E pc \in {"chargeLast", "error"} : ReqGoes(c, pc)
    /\ Calm /\ UNCHANGED <<requestFrame, purse, queue, record>>

ChargeLast(c) ==
    /\ req[c] = "chargeLast"
    /\ \/ CanSpend(c) /\ Spend(c) /\ ReqGoes(c, "replied") /\ Calm
       \/ ~CanSpend(c) /\ ReqGoes(c, "error") /\ Calm /\ UNCHANGED purse
       \/ SpendUnanswered(c) /\ ReqGoes(c, "error") /\ Strike({c})
    /\ UNCHANGED <<requestFrame, queue, record>>

\* purchase: Price[c] tokens from the wallet's money.
PurchaseCheck(c) ==
    /\ req[c] = "new"
    /\ Kind[c] = "purchase"
    /\ ReqGoes(c, IF money[Payer[c]] >= Price[c] THEN "debit" ELSE "refused")
    /\ Calm /\ UNCHANGED <<requestFrame, purse, queue, record>>

HasFunds(c) == money[Payer[c]] >= Price[c]

\* debitWallet is conditional on the balance.
PurchaseDebit(c) ==
    /\ req[c] = "debit"
    /\ IF HasFunds(c)
       THEN /\ money' = [money EXCEPT ![Payer[c]] = @ - Price[c]]
            /\ ReqGoes(c, "credit")
       ELSE ReqGoes(c, "refused") /\ UNCHANGED money
    /\ Calm /\ UNCHANGED <<asked, stops, purse, queue, record>>

PurchaseCredit(c) ==
    /\ req[c] = "credit"
    /\ \/ /\ tokens' = [tokens EXCEPT ![Payer[c]] = @ + Price[c]]
          /\ ReqGoes(c, "replied") /\ Calm
       \/ "dbError" \in TokenFaults /\ ReqGoes(c, "error") /\ Strike({c}) /\ UNCHANGED tokens
    /\ UNCHANGED <<requestFrame, charged, refunded, queue, record>>

RequestStep(c) ==
    \/ CheckBalance(c) \/ Meter(c) \/ ChargeFirst(c) \/ Upload(c) \/ FlushRedis(c)
    \/ Enqueue(c) \/ CreateRecord(c) \/ Predict(c) \/ Talk(c) \/ ChatRefund(c)
    \/ Ask(c) \/ ChargeLast(c) \/ PurchaseCheck(c) \/ PurchaseDebit(c) \/ PurchaseCredit(c)

-----------------------------------------------------------------------------
(* The worker                                                              *)

workerFrame == <<money, asked, req, again, flushed, stops>>

\* updateStatus finds the record by job id and creates none.
SetRecord(c, status) ==
    record' = [record EXCEPT ![c] = IF @ = "none" THEN @ ELSE status]

\* The job is taken and marked as running, before the try block: an error here
\* fails the job past the refund.
JobStart(c) ==
    /\ job[c] = "waiting"
    /\ \/ /\ SetRecord(c, "running")
          /\ JobGoes(c, IF Kind[c] \in Queued2nd THEN "check" ELSE "generate")
          /\ Calm
       \/ "dbError" \in TokenFaults /\ JobGoes(c, "ack") /\ Strike({c}) /\ UNCHANGED record
    /\ UNCHANGED <<workerFrame, purse>>

\* The balance is compared once more where the job is charged at its end.
JobCheck(c) ==
    /\ job[c] = "check"
    /\ JobGoes(c, IF Affords(c) THEN "generate" ELSE "fail")
    /\ Calm /\ UNCHANGED <<workerFrame, purse, record>>

\* Mutation: whatever failed is refunded.
RefundAll(c) == c \in Call

\* REFUND_KEY_BY_TYPE: the types charged before they were queued.
Refundable(c) == Kind[c] \in Charged1st

AfterFailure(c) == IF Refundable(c) THEN "refund" ELSE "fail"

Generate(c) ==
    /\ job[c] = "generate"
    /\ \/ JobGoes(c, IF Kind[c] \in Queued2nd THEN "chargeLast" ELSE "complete")
       \/ JobGoes(c, AfterFailure(c))
    /\ Calm /\ UNCHANGED <<workerFrame, purse, record>>

JobCharge(c) ==
    /\ job[c] = "chargeLast"
    /\ \/ /\ CanSpend(c) /\ Spend(c)
          /\ JobGoes(c, IF Kind[c] = "mask" THEN "cleanup" ELSE "complete")
          /\ Calm
       \/ ~CanSpend(c) /\ JobGoes(c, AfterFailure(c)) /\ Calm /\ UNCHANGED purse
       \/ SpendUnanswered(c) /\ JobGoes(c, AfterFailure(c)) /\ Strike({c})
    /\ UNCHANGED <<workerFrame, record>>

\* autoMaskPredict deletes the photos after the charge; an error fails the job.
Cleanup(c) ==
    /\ job[c] = "cleanup"
    /\ \/ JobGoes(c, "complete") /\ Calm
       \/ "uploadFails" \in TokenFaults /\ JobGoes(c, AfterFailure(c)) /\ Strike({c})
    /\ UNCHANGED <<workerFrame, purse, record>>

\* The result is saved, with retries; when they fail too, so does the job.
Complete(c) ==
    /\ job[c] = "complete"
    /\ \/ /\ SetRecord(c, "completed")
          /\ JobGoes(c, "ack")
          /\ IF record[c] = "none" THEN Strike({c}) ELSE Calm
       \/ /\ "dbError" \in TokenFaults
          /\ JobGoes(c, AfterFailure(c))
          /\ Strike({c})
          /\ UNCHANGED record
    /\ UNCHANGED <<workerFrame, purse>>

\* Mutation: the refund waits for the status, and comes too late.
FailFirst(c) ==
    /\ job[c] = "refund"
    /\ JobGoes(c, "fail")
    /\ SetRecord(c, "failed")
    /\ Calm /\ UNCHANGED <<workerFrame, purse>>

\* The refund precedes the status; its error is only logged.
JobRefund(c) ==
    /\ job[c] = "refund"
    /\ JobGoes(c, "fail")
    /\ \/ Refund(c) /\ Calm
       \/ "dbError" \in TokenFaults /\ Strike({c}) /\ UNCHANGED purse
    /\ UNCHANGED <<workerFrame, record>>

Fail(c) ==
    /\ job[c] = "fail"
    /\ JobGoes(c, "ack")
    /\ SetRecord(c, "failed")
    /\ IF record[c] = "none" THEN Strike({c}) ELSE Calm
    /\ UNCHANGED <<workerFrame, purse>>

\* BullMQ records the outcome in Redis: the job will not run again.
Acknowledge(c) ==
    /\ job[c] = "ack"
    /\ JobGoes(c, "over")
    /\ Calm /\ UNCHANGED <<workerFrame, purse, record>>

WorkerStep(c) ==
    \/ JobStart(c) \/ JobCheck(c) \/ Generate(c) \/ JobCharge(c) \/ Cleanup(c)
    \/ Complete(c) \/ JobRefund(c) \/ Fail(c) \/ Acknowledge(c)

-----------------------------------------------------------------------------
\* An instance stops.  A request is gone; a job is handed out once more, unless
\* it was before or its keys were flushed, and runs from the beginning.
TokenCrash(c) ==
    /\ crashes < MaxCrashes
    /\ crashes' = crashes + 1
    /\ cut' = cut \cup {c}
    /\ \/ req[c] \in InRequest /\ ReqGoes(c, "dead") /\ UNCHANGED <<job, again>>
       \/ /\ job[c] \in InWorker
          /\ JobGoes(c, IF c \in again \cup flushed THEN "over" ELSE "waiting")
          /\ again' = again \cup {c}
          /\ UNCHANGED req
    /\ Calm /\ UNCHANGED <<purse, money, asked, flushed, record>>

TokenNext == \E c \in Call : RequestStep(c) \/ WorkerStep(c) \/ TokenCrash(c)

TokenSpec == TokenInit /\ [][TokenNext]_tokenVars

\* As long as some handler or job can go on, one does: each has finitely many
\* steps, so all of them come to their end.
TokenFairness == WF_tokenVars(\E c \in Call : RequestStep(c) \/ WorkerStep(c))

TokenFairSpec == TokenSpec /\ TokenFairness

-----------------------------------------------------------------------------
(* Properties                                                              *)

\* However many features are asked for at once, before or after the balance of
\* another was compared, and whatever the order of their charges, no purse and
\* no wallet is overdrawn (spend: "only succeeds if tokens >= amount";
\* purchase: "guard prevents overdraft").
NeverOverdrawn == \A h \in Holder : tokens[h] >= 0 /\ money[h] >= 0

\* A call is refunded at most as often as it was charged, unless its job was cut
\* off and run again (outfit.processor.ts: refunding the other types "would
\* credit tokens that were never charged").
RefundOnlyCharged == \A c \in Call : c \notin cut => refunded[c] <= charged[c]

\* The customer who reads that a job failed has the tokens back already, also
\* when the job was cut off and run again (outfit.processor.ts: "so a failed
\* job never costs the customer").
FailedIsFree ==
    \A c \in Call :
      record[c] = "failed" /\ Kind[c] \in Charged1st /\ c \notin struck
        => refunded[c] > 0

\* What was charged beforehand is delivered or refunded in the end, whatever
\* else is asked for or fails meanwhile.  The calls in struck are the ones the
\* code gives up: hit by a database, queue or upload error, flushed by a video
\* request, or faster than their record; those in cut lost their instance.
EventuallySettled ==
    \A c \in Call :
      (charged[c] > 0 /\ Kind[c] \in Charged1st \cup {"chat"})
        ~> (\/ refunded[c] > 0
            \/ c \in struck \cup cut
            \/ record[c] = "completed"
            \/ Kind[c] = "chat" /\ req[c] = "replied")
=============================================================================
