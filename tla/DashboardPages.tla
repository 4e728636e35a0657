--------------------------- MODULE DashboardPages ---------------------------
(***************************************************************************)
(* The dashboard's pages together: one page is open, over the run files    *)
(* that the agent and other visitors go on writing.                        *)
(*   "runs"    the home, ranking and run pages, rendered on the server     *)
(*   "form"    /portfolio, with the two routes it calls                    *)
(*   "verify"  /verify, which reads no run file                            *)
(***************************************************************************)
EXTENDS RunPages, ScanForm, VerifyPage

CONSTANT Beside   \* bound: the sessions of the agent beside each page

ASSUME PagesAssumption == Beside.runs \subseteq Sessions /\ Beside.form \subseteq Sessions

VARIABLE page

pagesVars == <<page, storeVars, formVars, verifyVars>>

PagesInit ==
    /\ page \in {"runs", "form", "verify"}
    /\ StoreInit /\ FormInit
    /\ IF page = "verify"
       THEN VerifyInit
       ELSE /\ registry = [i \in Identities |-> Unset] /\ expected = {} /\ changes = 0
            /\ box = Nothing /\ shown = Status("idle") /\ checks = << >>

\* A page of runs, or GET /api/runs and /api/runs/[id], is asked for and answered.
Visit ==
    \/ ReadAll
    \/ \E id \in RunIds : GetRun(id)
    \/ Reply

Runs ==
    /\ page = "runs"
    /\ \/ AgentWrites(Beside.runs)
       \/ \E name \in DOMAIN files : Copy(name)
       \/ Visit
       \/ ReadFile
    /\ UNCHANGED <<page, formVars, verifyVars>>

Form ==
    /\ page = "form"
    /\ \/ FormNext
       \/ (AgentWrites(Beside.form) \/ ReadFile) /\ UNCHANGED formVars
    /\ UNCHANGED <<page, verifyVars>>

Verify ==
    /\ page = "verify"
    /\ VerifyNext
    /\ UNCHANGED <<page, storeVars, formVars>>

PagesNext == Runs \/ Form \/ Verify

PagesSpec == PagesInit /\ [][PagesNext]_pagesVars
=============================================================================
