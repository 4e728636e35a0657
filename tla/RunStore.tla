------------------------------ MODULE RunStore ------------------------------
(***************************************************************************)
(* The run files (dashboard/lib/runs.ts) that the dashboard's pages read.  *)
(*                                                                         *)
(* Two programs write them: the agent rewrites its session's file after    *)
(* every purchase, in another process, so a reader may find the file half  *)
(* written; the dashboard's own POST /api/scan writes each run once,       *)
(* between two awaits.  A reader lists the directory and then reads file   *)
(* after file, awaiting each, while both go on writing.                    *)
(***************************************************************************)
EXTENDS Integers, FiniteSets, SequencesExt, Arrays

CONSTANTS
    Sessions, WebRuns, \* ids of the agent's runs and of the dashboard's
    OtherIds,          \* ids a URL may name that no run has
    ValidIds,          \* ids RUN_ID_RE accepts
    Tails,             \* <<x, y>>: the id y ends with "-" and then x
    Demo, Recordings,  \* committed runs: demo-run.json, if any, and public/runs
    None,
    Answers,           \* requests a purchase may add to a run
    MaxRequests,       \* bound: the purchases of a session
    MaxStarts          \* bound: the runs started

VARIABLES
    files,    \* the runs directory: what is in the file of a name
    writing,  \* the run the agent is writing, None when it is not
    started,  \* how many runs have been started: the time of the next
    reader,   \* the one read in progress
    steady    \* history: the files intact and unchanged since it listed them

storeVars == <<files, writing, started, reader, steady>>

Torn == [torn |-> TRUE]
RunIds == Sessions \cup WebRuns \cup OtherIds \cup {r.id : r \in Range(Demo \o Recordings)}

isValidRunId(id) == id \in ValidIds

\* What the pages read of a run.
AnswerOk(request) ==
    /\ IsSeq(request.verdicts)
    /\ \A v \in Range(request.verdicts) :
          /\ v.verdict \in {"ok", "watch", "alert", "unavailable"}
          /\ v.score \in Nat /\ v.points \in Nat
RunOk(run) ==
    /\ run.at \in Nat
    /\ IsSeq(run.requests) /\ \A q \in Range(run.requests) : AnswerOk(q)
    /\ IsSeq(run.decisions)

\* New ids are fresh, and what is recorded or answered has the fields of its type.
ASSUME StoreAssumption ==
    /\ None \notin RunIds /\ Sessions \cap WebRuns = {}
    /\ (Sessions \cup WebRuns) \cap {r.id : r \in Range(Demo \o Recordings)} = {}
    /\ IsSeq(Demo) /\ IsSeq(Recordings)
    /\ \A run \in Range(Demo \o Recordings) : RunOk(run)
    /\ \A request \in Answers : AnswerOk(request)

-----------------------------------------------------------------------------
(* Runs                                                                     *)

ActionFor == [ok |-> "hold", watch |-> "rebalance", alert |-> "withdraw",
              unavailable |-> "insufficient data"]

Decide(request) ==
    [i \in DOMAIN request.verdicts |->
        LET v == request.verdicts[i]
        IN  [vault |-> v.vault,
             action |-> IF v.vault \in request.rejected THEN "insufficient data"
                                                        ELSE ActionFor[v.verdict]]]

Run(id, at, requests) ==
    [id |-> id, at |-> at, requests |-> requests,
     decisions |-> FlattenSeq([i \in DOMAIN requests |-> Decide(requests[i])])]

\* A purchase that settled without a receipt that verifies.
FailedRun(id, at, vaults) ==
    [id |-> id, at |-> at, requests |-> <<>>,
     decisions |-> [i \in DOMAIN SetToSeq(vaults) |->
                       [vault |-> SetToSeq(vaults)[i], action |-> "insufficient data"]]]

VaultsOf(requests) ==
    UNION {{v.vault : v \in Range(q.verdicts)} \cup q.rejected : q \in Range(requests)}

vaultIdsIn(run) == VaultsOf(run.requests) \cup {d.vault : d \in Range(run.decisions)}

\* Names sort by the time they begin with; a copy, named by the id alone, comes last.
NameOf(run) == [at |-> run.at, id |-> run.id, copy |-> FALSE]
Before(a, b) == IF a.copy = b.copy THEN a.at <= b.at ELSE b.copy

-----------------------------------------------------------------------------
(* Writers                                                                  *)

StoreInit ==
    /\ files = << >> /\ writing = None /\ started = 0
    /\ reader = None /\ steady = {}

\* The run has a file that parses.
Saved(run) == NameOf(run) \in DOMAIN files /\ files[NameOf(run)] # Torn

Put(name, content) ==
    /\ files' = [n \in DOMAIN files \cup {name} |-> IF n = name THEN content ELSE files[n]]
    /\ steady' = steady \ {name}

\* saveRun of the agent: the file is truncated, then written.  A session that
\* has a file saves it again with the requests of one more purchase.
SaveBegins(id, request) ==
    /\ writing = None
    /\ LET mine == {n \in DOMAIN files : n.id = id /\ ~n.copy}
       IN  \/ /\ mine = {} /\ started < MaxStarts
              /\ writing' = Run(id, started, <<request>>)
              /\ started' = started + 1
           \/ \E n \in mine :
                 /\ files[n] # Torn /\ Len(files[n].requests) < MaxRequests
                 /\ writing' = Run(id, n.at, Append(files[n].requests, request))
                 /\ UNCHANGED started
    /\ Put(NameOf(writing'), Torn)
    /\ UNCHANGED reader

SaveEnds ==
    /\ writing # None
    /\ Put(NameOf(writing), writing)
    /\ writing' = None
    /\ UNCHANGED <<started, reader>>

\* The agent dies between the two: the file stays as it is.
AgentDies ==
    /\ writing # None
    /\ writing' = None
    /\ UNCHANGED <<files, started, reader, steady>>

\* An operator copies a finished run to <id>.json.  Bound: one copy.
Copy(name) ==
    /\ name \in DOMAIN files /\ files[name] # Torn
    /\ \A n \in DOMAIN files : ~n.copy
    /\ Put([name EXCEPT !.copy = TRUE], files[name])
    /\ UNCHANGED <<writing, started, reader>>

\* persist of POST /api/scan.  A write that fails is only logged: it leaves no file, or
\* one that does not parse.
Persist(run) ==
    /\ \/ \E content \in {run, Torn} : Put(NameOf(run), content)
       \/ UNCHANGED <<files, steady>>
    /\ UNCHANGED <<writing, started, reader>>

AgentWrites(sessions) ==
    \/ \E id \in sessions, request \in Answers : SaveBegins(id, request)
    \/ SaveEnds
    \/ AgentDies

-----------------------------------------------------------------------------
(* Readers                                                                  *)

listRunFiles == InOrder(DOMAIN files, Before)

\* Of two recordings of one purchase the first.
readBundledRuns ==
    LET all == Demo \o Recordings
    IN  At(all, {i \in DOMAIN all : \A j \in 1 .. i - 1 : all[j].id # all[i].id})

WithId(runs, id) == filter(runs, LAMBDA r : r.id = id)
FirstOf(runs) == IF runs = <<>> THEN <<>> ELSE <<Head(runs)>>

\* A name is looked at first when it ends in the id.
Guessed(names, id) ==
    filter(names, LAMBDA n : n.id = id \/ <<id, n.id>> \in Tails)

\* The beginning of readAllRuns: the listing, or the whole answer without one.
ReadAll ==
    /\ reader = None
    /\ reader' = [wanted |-> None, names |-> listRunFiles, todo |-> listRunFiles,
                  runs |-> IF listRunFiles = <<>> THEN readBundledRuns ELSE <<>>]
    /\ steady' = {n \in DOMAIN files : files[n] # Torn}
    /\ UNCHANGED <<files, writing, started>>

\* The beginning of getRun.
GetRun(id) ==
    /\ reader = None
    /\ LET names == IF isValidRunId(id) THEN listRunFiles ELSE <<>>
       IN  reader' = [wanted |-> id, names |-> names, todo |-> Guessed(names, id) \o names,
                      runs |-> IF isValidRunId(id) /\ names = <<>>
                               THEN FirstOf(WithId(readBundledRuns, id)) ELSE <<>>]
    /\ steady' = {n \in DOMAIN files : files[n] # Torn}
    /\ UNCHANGED <<files, writing, started>>

Reading == reader # None /\ reader.todo # <<>>
Answered == reader # None /\ reader.todo = <<>>

\* Faulty variant: the file whose name ends in the id is taken for the run's.
ReadFileTrusting ==
    /\ Reading
    /\ LET content == files[Head(reader.todo)]
           wanted == reader.wanted # None /\ Guessed(<<Head(reader.todo)>>, reader.wanted) # <<>>
       IN  reader' = [reader EXCEPT
               !.todo = IF content # Torn /\ wanted THEN <<>> ELSE Tail(@),
               !.runs = IF content # Torn /\ (wanted \/ reader.wanted = None)
                        THEN Append(@, content) ELSE @]
    /\ UNCHANGED <<files, writing, started, steady>>

\* readRunFile: a file that does not parse is skipped.
ReadFile ==
    /\ Reading
    /\ LET content == files[Head(reader.todo)]
           found == content # Torn /\ reader.wanted = content.id
       IN  reader' = [reader EXCEPT
               !.todo = IF found THEN <<>> ELSE Tail(@),
               !.runs = IF content # Torn /\ (found \/ reader.wanted = None)
                        THEN Append(@, content) ELSE @]
    /\ UNCHANGED <<files, writing, started, steady>>

Reply ==
    /\ Answered
    /\ reader' = None
    /\ steady' = {}
    /\ UNCHANGED <<files, writing, started>>

listRuns(runs) == [i \in DOMAIN runs |->
                      [id |-> runs[i].id, at |-> runs[i].at, requests |-> Len(runs[i].requests)]]

MatchOf(r, vaults) ==
    [id |-> r.id, at |-> r.at, matched |-> vaultIdsIn(r) \cap vaults,
     verdicts |-> filter(FlattenSeq([i \in DOMAIN r.requests |-> r.requests[i].verdicts]),
                         LAMBDA v : v.vault \in vaults),
     actions |-> filter(r.decisions, LAMBDA d : d.vault \in vaults)]

\* Runs that cover any of the vaults, the newest first.
findRunsForVaults(runs, vaults) ==
    LET covering == filter(runs, LAMBDA r : vaultIdsIn(r) \cap vaults # {})
    IN  sort([i \in DOMAIN covering |-> MatchOf(covering[i], vaults)],
             LAMBDA a, b : a.at > b.at)

-----------------------------------------------------------------------------
(* Properties                                                               *)

\* Whatever is written meanwhile, a read answers with every run whose file was
\* whole from the listing on; a run page gets the run of its own id and a 404
\* only for a run that was missing or being rewritten; and recordings are served
\* in place of real runs only when there were none.
KeptRunsAreServed ==
    Answered =>
        LET served == Range(reader.runs)
        IN  /\ IF reader.wanted = None
               THEN \A n \in steady :
                        /\ files[n] \in served
                        /\ \E row \in Range(listRuns(reader.runs)) :
                              row.id = n.id /\ row.requests = Len(files[n].requests)
               ELSE /\ \A run \in served : run.id = reader.wanted
                    /\ served = {} /\ isValidRunId(reader.wanted) =>
                           \A n \in steady : n.id # reader.wanted
            /\ steady # {} => served \cap Range(Demo \o Recordings) = {}
=============================================================================
