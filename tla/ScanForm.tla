------------------------------ MODULE ScanForm ------------------------------
(***************************************************************************)
(* The form of /portfolio (dashboard/app/portfolio/ScanForm.tsx) with what *)
(* its two requests do on the server: POST /api/scan buys a scan and saves *)
(* its run, GET /api/runs reads the runs that cover the form's vaults.     *)
(*                                                                         *)
(* The connection may break at any time, and a scan goes on on the server  *)
(* when it does.  What POST /api/scan checks and pays is DashboardScan;    *)
(* here it refuses, or pays and ends verified or not.                      *)
(***************************************************************************)
EXTENDS RunStore

CONSTANTS
    Vaults, Blank, Malformed,
    Reads,         \* what a line of the text is: a vault, Blank or Malformed
    Texts,         \* what a user may type or paste: lines
    MaxVaults,     \* MAX_VAULTS
    KeysConfigured,
    Refusals       \* the statuses POST /api/scan refuses with

ASSUME FormAssumption == Texts \subseteq Seq(DOMAIN Reads) /\ 200 \notin Refusals

VARIABLES
    text, busy, error, result, history, historyError,   \* useState
    fetch,      \* the request the form awaits, None when it awaits none
    jobs,       \* the paid scans the server is at work on, by their run
    historyOf   \* history: the vaults the shown history was read for

formVars == <<text, busy, error, result, history, historyError, fetch, jobs, historyOf>>

parseVaultList(lines) ==
    LET kept == filter([i \in DOMAIN lines |-> Reads[lines[i]]], LAMBDA v : v # Blank)
        vaults == Range(kept)
    IN  [ok |-> kept # <<>> /\ Malformed \notin vaults /\ Cardinality(vaults) <= MaxVaults,
         vaults |-> vaults]

parsed == parseVaultList(text)
running == busy # "idle"

FormInit ==
    /\ text = <<>> /\ busy = "idle"
    /\ error = None /\ result = None
    /\ history = None /\ historyError = FALSE
    /\ fetch = None /\ jobs = << >> /\ historyOf = {}

-----------------------------------------------------------------------------
(* The form                                                                 *)

\* The text is disabled while a request runs.
Edit(lines) ==
    /\ ~running
    /\ text' = lines
    /\ UNCHANGED <<busy, error, result, history, historyError, fetch, jobs, historyOf, storeVars>>

loadHistory ==
    /\ historyError' = FALSE
    /\ fetch' = [url |-> "runs", vaults |-> parsed.vaults, id |-> None, reply |-> None]

onShowHistory ==
    /\ ~running /\ parsed.ok
    /\ busy' = "history"
    /\ loadHistory
    /\ UNCHANGED <<text, error, result, history, jobs, historyOf, storeVars>>

onScan ==
    /\ ~running /\ parsed.ok /\ KeysConfigured
    /\ busy' = "scanning" /\ error' = None /\ result' = None
    /\ fetch' = [url |-> "scan", vaults |-> parsed.vaults, id |-> None, reply |-> None]
    /\ UNCHANGED <<text, history, historyError, jobs, historyOf, storeVars>>

Replied(url) == fetch # None /\ fetch.url = url /\ fetch.reply # None

\* A sentence for each status, with the detail the body gives.
scanErrorMessage(reply) == [failed |-> reply.status]

\* Faulty variant: the history on the page is left as it was.
ScanRepliedOnly(readable) ==
    /\ Replied("scan")
    /\ IF fetch.reply.status = 200
       THEN result' = (IF readable THEN fetch.reply.run ELSE None) /\ UNCHANGED error
       ELSE error' = scanErrorMessage(fetch.reply) /\ UNCHANGED result
    /\ busy' = "idle" /\ fetch' = None
    /\ UNCHANGED <<text, history, historyError, jobs, historyOf, storeVars>>

\* The answer to a scan.  A body that is not JSON reads as null.
ScanReplied(readable) ==
    /\ Replied("scan")
    /\ IF fetch.reply.status = 200
       THEN /\ result' = IF readable THEN fetch.reply.run ELSE None
            /\ loadHistory
            /\ UNCHANGED <<busy, error>>
       ELSE /\ error' = scanErrorMessage(fetch.reply)
            /\ busy' = "idle" /\ fetch' = None
            /\ UNCHANGED <<result, historyError>>
    /\ UNCHANGED <<text, history, jobs, historyOf, storeVars>>

\* An unreadable 200 shows as an empty history: it was read for no vault.
HistoryReplied(readable) ==
    /\ Replied("runs")
    /\ history' = IF readable THEN fetch.reply.matches ELSE <<>>
    /\ historyOf' = IF readable THEN fetch.vaults ELSE {}
    /\ busy' = "idle" /\ fetch' = None
    /\ UNCHANGED <<text, error, result, historyError, jobs, storeVars>>

\* "The scan request failed before it reached the server"
Unreached == [unreached |-> TRUE]

\* fetch throws, or a proxy answers for the server; a scan already taken goes on.
ConnectionLost ==
    /\ fetch # None
    /\ IF fetch.url = "scan" THEN error' = Unreached /\ UNCHANGED historyError
                             ELSE historyError' = TRUE /\ UNCHANGED error
    /\ busy' = "idle" /\ fetch' = None
    /\ reader' = None /\ steady' = {}
    /\ UNCHANGED <<text, result, history, jobs, historyOf, files, writing, started>>

-----------------------------------------------------------------------------
(* The server                                                               *)

Arrived == fetch # None /\ fetch.url = "scan" /\ fetch.id = None /\ fetch.reply = None

ScanRefused(status) ==
    /\ Arrived
    /\ fetch' = [fetch EXCEPT !.reply = [status |-> status]]
    /\ UNCHANGED <<text, busy, error, result, history, historyError, jobs, historyOf, storeVars>>

\* The checks have passed and the payment is under way; the run has its start.
Pays(id) ==
    /\ Arrived
    /\ started < MaxStarts
    /\ id \notin DOMAIN jobs /\ \A n \in DOMAIN files : n.id # id
    /\ jobs' = [j \in DOMAIN jobs \cup {id} |->
                   IF j = id THEN [at |-> started, vaults |-> fetch.vaults] ELSE jobs[j]]
    /\ started' = started + 1
    /\ fetch' = [fetch EXCEPT !.id = id]
    /\ UNCHANGED <<text, busy, error, result, history, historyError, historyOf,
                   files, writing, reader, steady>>

\* The scan is over: its run is saved and then its caller answered, if it waits.
Ends(id, run, reply) ==
    /\ Persist(run)
    /\ jobs' = [j \in DOMAIN jobs \ {id} |-> jobs[j]]
    /\ fetch' = IF fetch # None /\ fetch.id = id THEN [fetch EXCEPT !.reply = reply] ELSE fetch
    /\ UNCHANGED <<text, busy, error, result, history, historyError, historyOf>>

ScanVerifies(id, answer) ==
    /\ id \in DOMAIN jobs
    /\ VaultsOf(<<answer>>) \subseteq jobs[id].vaults
    /\ LET run == Run(id, jobs[id].at, <<answer>>)
       IN  Ends(id, run, [status |-> 200, run |-> run])

\* It threw, timed out, or came back with nothing that verifies.
ScanThrows(id) ==
    /\ id \in DOMAIN jobs
    /\ Ends(id, FailedRun(id, jobs[id].at, jobs[id].vaults), [status |-> 502])

ReadsHistory ==
    /\ fetch # None /\ fetch.url = "runs" /\ fetch.reply = None
    /\ ReadAll
    /\ UNCHANGED formVars

AnswersHistory ==
    /\ Reply
    /\ fetch' = [fetch EXCEPT !.reply =
                    [status |-> 200, matches |-> findRunsForVaults(reader.runs, fetch.vaults)]]
    /\ UNCHANGED <<text, busy, error, result, history, historyError, jobs, historyOf>>

FormNext ==
    \/ \E lines \in Texts : Edit(lines)
    \/ onShowHistory
    \/ onScan
    \/ \E readable \in BOOLEAN : ScanReplied(readable) \/ HistoryReplied(readable)
    \/ ConnectionLost
    \/ \E status \in Refusals : ScanRefused(status)
    \/ \E id \in WebRuns : Pays(id) \/ ScanThrows(id) \/ \E answer \in Answers : ScanVerifies(id, answer)
    \/ ReadsHistory
    \/ AnswersHistory

-----------------------------------------------------------------------------
(* What is on the page                                                      *)

\* The purchase: what each request brought, and every decision.
Result(run) ==
    [run |-> run.id, decisions |-> run.decisions,
     sections |-> [i \in DOMAIN run.requests |->
         [verdicts |-> run.requests[i].verdicts, rejected |-> run.requests[i].rejected,
          empty |-> run.requests[i].verdicts = <<>>]]]

\* An error stands above the rows loaded before it.
History ==
    LET rows == IF history = None THEN <<>> ELSE history
    IN  [rows |-> rows, error |-> historyError, nothing |-> ~historyError /\ rows = <<>>]

\* The sections of the form, in the states that show them.
Page ==
    [working |-> running,
     error |-> error,
     purchase |-> IF result = None THEN None ELSE Result(result),
     history |-> IF history = None /\ ~historyError THEN None ELSE History]

\* A purchase on the page is in the history under it, with the verdicts it
\* brought, whenever that history was read for one of its vaults and the run could
\* be saved; and no error stands beside a purchase.  (A history whose 200 could not
\* be read is exempt: the form shows it as empty, without an error, all the same.)
PurchaseInHistory ==
    Page.purchase # None =>
        /\ Page.error = None
        /\ /\ ~Page.working /\ Page.history # None /\ ~Page.history.error
           /\ Saved(result)
           /\ vaultIdsIn(result) \cap historyOf # {}
           => \E i \in DOMAIN Page.history.rows :
                  findRunsForVaults(<<result>>, historyOf) = <<Page.history.rows[i]>>
=============================================================================
