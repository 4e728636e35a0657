------------------------------ MODULE RunPages ------------------------------
(***************************************************************************)
(* What the read-only pages make of the runs they are given: the ranking   *)
(* (dashboard/app/universe/page.tsx, lib/universe.ts), a run's own page    *)
(* (app/runs/[id]/page.tsx) and the tables of runs.  Each page is rendered *)
(* once, from one answer of the run store.                                 *)
(***************************************************************************)
EXTENDS RunStore

CONSTANT CleanPreview   \* CLEAN_PREVIEW: clean vaults shown before the fold

ASSUME PreviewAssumption == CleanPreview \in Nat

VerdictsOf(run) == FlattenSeq([i \in DOMAIN run.requests |-> run.requests[i].verdicts])
Is(verdicts, kind) == filter(verdicts, LAMBDA v : v.verdict = kind)
Prefix(s, n) == SubSeq(s, 1, IF n < Len(s) THEN n ELSE Len(s))
Rest(s, n) == SubSeq(s, n + 1, Len(s))

-----------------------------------------------------------------------------
(* The ranking                                                              *)

\* Faulty variant: the later reading is kept.
PickedLast(verdicts) ==
    {i \in DOMAIN verdicts :
        \A j \in DOMAIN verdicts : verdicts[j].vault = verdicts[i].vault => j <= i}

\* A vault bought twice keeps its more severe reading, the first of equals.
Picked(verdicts) ==
    {i \in DOMAIN verdicts :
        \A j \in DOMAIN verdicts :
            verdicts[j].vault = verdicts[i].vault =>
                \/ verdicts[j].score < verdicts[i].score
                \/ verdicts[j].score = verdicts[i].score /\ i <= j}

DecidedFor(decisions, vault) ==
    LET its == filter(decisions, LAMBDA d : d.vault = vault)
    IN  IF its = <<>> THEN None ELSE Last(its).action

Refused(row) == row.verdict = "unavailable"

\* Refused vaults last; among the others the worst score first.  (The order of
\* ids among equals is left out: the sort keeps them as they were.)
Worse(a, b) == IF Refused(a) = Refused(b) THEN a.score > b.score ELSE Refused(b)

\* A row of the table: a chart needs two points, and without a decision the row
\* says that there is no evidence.
RowOf(v, decisions) ==
    [vault |-> v.vault, verdict |-> v.verdict, score |-> v.score,
     chart |-> v.points >= 2, action |-> DecidedFor(decisions, v.vault)]

buildVaultRows(verdicts, decisions) ==
    LET picked == At(verdicts, Picked(verdicts))
    IN  sort([k \in DOMAIN picked |-> RowOf(picked[k], decisions)], Worse)

Scored(run) ==
    Len(filter(VerdictsOf(run), LAMBDA v : v.verdict # "unavailable" /\ v.points > 1))

Rank(run) == IF Scored(run) > 0 THEN Scored(run) * 1000 ELSE Len(VerdictsOf(run))

\* The run ranked: the one asked for, or the first of those with most scored vaults.
RankedRun(runs, wanted) ==
    IF wanted # None
    THEN FirstOf(WithId(runs, wanted))
    ELSE FirstOf(filter(runs, LAMBDA r : \A other \in Range(runs) : Rank(other) <= Rank(r)))

UniversePage(runs, wanted) ==
    LET ranked == RankedRun(runs, wanted)
        rows == IF ranked = <<>> THEN <<>>
                ELSE buildVaultRows(VerdictsOf(ranked[1]), ranked[1].decisions)
    IN  [run |-> ranked, rows |-> rows, refused |-> Len(filter(rows, Refused)),
         says |-> IF ranked = <<>> THEN "no runs" ELSE IF rows = <<>> THEN "no verdicts" ELSE "rows"]

-----------------------------------------------------------------------------
(* One run                                                                  *)

Severity == [alert |-> 0, watch |-> 1, unavailable |-> 2, ok |-> 3]

VerdictCard(v) ==
    [vault |-> v.vault, verdict |-> v.verdict, score |-> v.score, chart |-> v.points > 1]

CardsOf(verdicts) == [i \in DOMAIN verdicts |-> VerdictCard(verdicts[i])]

\* The flagged and the refused first; of the clean ones all but a few are folded.
VerdictGrid(verdicts) ==
    LET sorted == sort(verdicts, LAMBDA a, b :
                      \/ Severity[a.verdict] < Severity[b.verdict]
                      \/ a.verdict = b.verdict /\ a.score > b.score)
        notable == filter(sorted, LAMBDA v : v.verdict # "ok")
        clean == Is(sorted, "ok")
    IN  [shown |-> CardsOf(notable \o Prefix(clean, CleanPreview)),
         folded |-> CardsOf(Rest(clean, CleanPreview))]

DecisionGrid(decisions) ==
    LET holds == filter(decisions, LAMBDA d : d.action = "hold")
        notable == filter(decisions, LAMBDA d : d.action # "hold")
    IN  [shown |-> notable \o Prefix(holds, CleanPreview), folded |-> Rest(holds, CleanPreview)]

RequestSection(request) ==
    [grid |-> VerdictGrid(request.verdicts), refused |-> request.rejected]

RunPage(run) ==
    LET Count(kind) == Len(Is(VerdictsOf(run), kind))
    IN  [alerts |-> Count("alert"), watching |-> Count("watch"),
         unavailable |-> Count("unavailable"),
         allClear |-> Count("alert") + Count("watch") + Count("unavailable") = 0,
         sections |-> [i \in DOMAIN run.requests |-> RequestSection(run.requests[i])],
         decisions |-> DecisionGrid(run.decisions)]

-----------------------------------------------------------------------------
(* Properties                                                               *)

Holds(s, x) == \E i \in DOMAIN s : s[i] = x

\* The n-th reading scores higher than the k-th, or as much and was bought first.
Prevails(verdicts, n, k) ==
    \/ verdicts[n].score > verdicts[k].score
    \/ verdicts[n].score = verdicts[k].score /\ n <= k

Tells(row, v) == row.vault = v.vault /\ row.verdict = v.verdict /\ row.score = v.score

\* Each reading is in the row of its vault, or gives way there to one that prevails.
OneRowEach(rows, verdicts) ==
    \A k \in DOMAIN verdicts :
        \E i \in DOMAIN rows :
            /\ rows[i].vault = verdicts[k].vault
            /\ \E n \in DOMAIN verdicts :
                   Tells(rows[i], verdicts[n]) /\ Prevails(verdicts, n, k)
            /\ \A j \in DOMAIN rows : rows[j].vault = verdicts[k].vault => j = i

RankingIsWorst(runs, wanted) ==
    LET page == UniversePage(runs, wanted)
        rows == page.rows
    IN  \A run \in Range(page.run) :
            /\ OneRowEach(rows, VerdictsOf(run))
            /\ \A i, k \in DOMAIN rows : i < k => ~Worse(rows[k], rows[i])
            /\ wanted = None => \A other \in Range(runs) : Rank(run) >= Rank(other)

NothingHidden(run) ==
    LET page == RunPage(run)
    IN  /\ \A i \in DOMAIN run.requests : \A v \in Range(run.requests[i].verdicts) :
               LET grid == page.sections[i].grid
               IN  IF v.verdict = "ok" THEN Holds(grid.shown \o grid.folded, VerdictCard(v))
                                       ELSE Holds(grid.shown, VerdictCard(v))
        /\ \A d \in Range(run.decisions) :
               IF d.action = "hold" THEN Holds(page.decisions.shown \o page.decisions.folded, d)
                                    ELSE Holds(page.decisions.shown, d)
        /\ page.allClear => \A v \in Range(VerdictsOf(run)) : v.verdict = "ok"

\* Of a vault bought twice in one run the ranking shows the reading that scores
\* higher, once, so a flagged one is never hidden; of equal scores it shows the
\* first, so a refused reading gives way to a clean one bought before it, whatever
\* universe.ts:81-83 says of the more severe.  No vault with an answer is below a
\* refused one.  A run's own page folds away only what is clean, and "all clear"
\* is said only of a run without anything flagged or refused.
WorstIsShown ==
    Answered =>
        /\ \A run \in Range(reader.runs) : NothingHidden(run)
        /\ reader.wanted = None =>
               \A wanted \in {None} \cup {run.id : run \in Range(reader.runs)} :
                   RankingIsWorst(reader.runs, wanted)
=============================================================================
