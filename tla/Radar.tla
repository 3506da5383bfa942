-------------------------------- MODULE Radar --------------------------------
(***************************************************************************)
(* The Radar page: the Hub's models in two orders, a filter, and per model *)
(* an estimate whether it runs on this machine, as a chip and as a bar     *)
(* (RadarPage, gauge, MemoryGauge), over the estimate the server makes     *)
(* (discovery/feasibility).                                                *)
(*                                                                         *)
(* The list of an order and the report of a model are queries of their     *)
(* own, asked for when they are shown and answered in any order.  The      *)
(* machine's memory is taken to be known: the table waits for it.  Memory  *)
(* is in hundredths of a gigabyte, as estimates are rounded; the bar's     *)
(* coordinates are sixtieths of that, so that its margins are whole.       *)
(***************************************************************************)
EXTENDS Integers, Sequences, FiniteSets, SequencesExt, FiniteSetsExt

CONSTANTS Hub,        \* the models of the Hub
          Details,    \* what the Hub may say of one: its GGUF files' sizes, its weights'
          Rankings,   \* the lists GET /models/discover may answer with
          Usable      \* usable_memory_gb

(* A machine has memory; the Hub answers with lists of its models, and     *)
(* with sizes that are numbers.                                            *)
ASSUME RadarAssumption ==
  /\ Usable \in Nat \ {0}
  /\ Rankings \subseteq Seq(Hub)
  /\ Details \subseteq [files : Seq(Nat), weights : Nat]

VARIABLES
  order,      \* useState: the sort order shown
  filter,     \* useState: the models the filter's text matches
  models,     \* useQuery(discoverModels(sort)), of both orders
  reports     \* useQueries(feasibility), of every model

radarVars == <<order, filter, models, reports>>

Orders == {"trending", "recent"}
NoSize == 0        \* no parameter metadata

(* ---- estimate_feasibility --------------------------------------------- *)

FeasibilityOption(backend, size) ==
  LET estimate == (12 * size + 5) \div 10
  IN [backend  |-> backend,
      estimate |-> estimate,
      verdict  |-> CASE 100 * estimate < 70 * Usable -> "comfortable"
                     [] 100 * estimate >= 70 * Usable /\ 100 * estimate < 95 * Usable -> "tight"
                     [] OTHER -> "wont_fit"]

(* No option at all is answered with an error, feasibility_unknown. *)
EstimateFeasibility(detail) ==
  [i \in DOMAIN detail.files |-> FeasibilityOption("gguf", detail.files[i])]
    \o IF detail.weights = NoSize THEN <<>>
       ELSE <<FeasibilityOption("transformers", detail.weights)>>

(* ---- the gauge -------------------------------------------------------- *)

GaugeMax == 90 * Usable
MinWidth == 2 * Usable

Bands == {[cls |-> "seg-fit",   start |-> 0,           end |-> 42 * Usable],
          [cls |-> "seg-tight", start |-> 42 * Usable, end |-> 57 * Usable],
          [cls |-> "hatch",     start |-> 57 * Usable, end |-> GaugeMax]}

(* The coloured pieces of the part from lo to hi, at least a sliver.  Each *)
(* is drawn where it starts, so their order does not matter.               *)
GaugeSegments(lo, hi) ==
  LET a == Min({60 * lo, GaugeMax - MinWidth})
      b == Max({Min({60 * hi, GaugeMax}), a + MinWidth})
      clipped(band) == [cls |-> band.cls, start |-> Max({a, band.start}),
                        end |-> Min({b, band.end})]
  IN {seg \in {clipped(band) : band \in Bands} : seg.end > seg.start}

Rank(verdict) == CASE verdict = "comfortable" -> 0 [] verdict = "tight" -> 1 [] OTHER -> 2

BestVerdict(verdicts) ==
  IF verdicts = {} THEN "none"
  ELSE CHOOSE v \in verdicts : \A w \in verdicts : Rank(v) <= Rank(w)

(* ---- what is rendered ------------------------------------------------- *)

Estimates(report) == {report.options[i].estimate : i \in DOMAIN report.options}

FormatChips(report) == {report.options[i].backend : i \in DOMAIN report.options}

(* The track stays empty until there is a report without an error. *)
FeasibilityGauge(report) ==
  IF report.status # "success" THEN {}
  ELSE GaugeSegments(Min(Estimates(report)), Max(Estimates(report)))

FeasibilityVerdict(report) ==
  LET count(v) == Cardinality({i \in DOMAIN report.options : report.options[i].verdict = v})
  IN CASE report.status = "pending" -> [chip |-> "Estimating", fit |-> 0, tight |-> 0]
       [] report.status = "error"   -> [chip |-> "Unknown", fit |-> 0, tight |-> 0]
       [] report.status = "success" ->
            [chip  |-> BestVerdict({report.options[i].verdict : i \in DOMAIN report.options}),
             fit   |-> count("comfortable"), tight |-> count("tight")]

RadarRow(rank, model, report) ==
  [rank |-> rank, model |-> model, formats |-> FormatChips(report),
   bar |-> FeasibilityGauge(report), verdict |-> FeasibilityVerdict(report)]

Listed == models[order].data

FeasibilityResults == [i \in DOMAIN Listed |-> reports[Listed[i]]]

(* The filter is of the rows, so a row keeps its place in the list. *)
Shown == {i \in DOMAIN Listed : Listed[i] \in filter}

(* Mutant: the reports are taken by the place in the filtered list. *)
RowsByPlace ==
  LET place(i) == Cardinality({j \in Shown : j <= i})
  IN {RadarRow(i, Listed[i], FeasibilityResults[place(i)]) : i \in Shown}

Rows == {RadarRow(i, Listed[i], FeasibilityResults[i]) : i \in Shown}

RadarTable ==
  [rendered |-> models[order].loaded,
   rows     |-> Rows,
   legend   |-> \E m \in Range(Listed) \cap filter : reports[m].loaded]

(* ---- the queries ------------------------------------------------------ *)

RadarInit ==
  /\ order = "trending" /\ filter = Hub
  /\ models = [s \in Orders |-> [loaded |-> FALSE, data |-> <<>>, fetching |-> s = "trending"]]
  /\ reports = [m \in Hub |-> [status |-> "pending", loaded |-> FALSE, options |-> <<>>,
                               fetching |-> FALSE]]

(* A query that is shown anew, or again, is fetched when it has no data or *)
(* its data is stale; without data it is pending again.                    *)
Asked(report) ==
  [report EXCEPT !.fetching = TRUE, !.status = IF report.loaded THEN @ ELSE "pending"]

Shows(s, lists, anew) ==
  LET shown == anew \cap Range(lists[s].data)
  IN \E stale \in SUBSET {m \in shown : reports[m].loaded} :
       reports' = [m \in Hub |-> IF m \in stale \/ (m \in shown /\ ~reports[m].loaded)
                                 THEN Asked(reports[m]) ELSE reports[m]]

FilterChange(matching) == filter' = matching /\ UNCHANGED <<order, models, reports>>

(* The other order's list may be there already; it is fetched all the same. *)
SortChange(s) ==
  /\ s # order
  /\ order' = s
  /\ models' = [models EXCEPT ![s].fetching = TRUE]
  /\ Shows(s, models, Hub \ Range(Listed))
  /\ UNCHANGED filter

(* The button, or the window that gets the focus again, which also fetches *)
(* the reports that are stale.                                             *)
Refresh ==
  /\ models' = [models EXCEPT ![order].fetching = TRUE]
  /\ UNCHANGED reports \/ Shows(order, models, Hub)
  /\ UNCHANGED <<order, filter>>

(* An answer reaches the order it was asked for, shown or not. *)
ModelsArrive(s) ==
  /\ models[s].fetching
  /\ \E data \in Rankings :
       models' = [models EXCEPT ![s] = [loaded |-> TRUE, data |-> data, fetching |-> FALSE]]
  /\ IF s = order THEN Shows(s, models', Hub \ Range(Listed)) ELSE UNCHANGED reports
  /\ UNCHANGED <<order, filter>>

(* The list there was stays under the error. *)
ModelsFail(s) ==
  /\ models[s].fetching
  /\ models' = [models EXCEPT ![s].fetching = FALSE]
  /\ UNCHANGED <<order, filter, reports>>

FeasibilityArrives(m) ==
  /\ reports[m].fetching
  /\ \E detail \in Details :
       LET options == EstimateFeasibility(detail)
       IN reports' = [reports EXCEPT ![m] =
            IF options = <<>> THEN [@ EXCEPT !.status = "error", !.fetching = FALSE]
            ELSE [status |-> "success", loaded |-> TRUE, options |-> options, fetching |-> FALSE]]
  /\ UNCHANGED <<order, filter, models>>

FeasibilityFails(m) ==
  /\ reports[m].fetching
  /\ reports' = [reports EXCEPT ![m].status = "error", ![m].fetching = FALSE]
  /\ UNCHANGED <<order, filter, models>>

RadarNext ==
  \/ \E matching \in SUBSET Hub : FilterChange(matching)
  \/ \E s \in Orders : SortChange(s) \/ ModelsArrive(s) \/ ModelsFail(s)
  \/ Refresh
  \/ \E m \in Hub : FeasibilityArrives(m) \/ FeasibilityFails(m)

RadarSpec == RadarInit /\ [][RadarNext]_radarVars

(* ---- properties ------------------------------------------------------- *)

Colour(verdict) ==
  CASE verdict = "comfortable" -> "seg-fit" [] verdict = "tight" -> "seg-tight" [] OTHER -> "hatch"

(* The bar of a row is one stretch of the scale that begins in the colour  *)
(* of the chip, shows the colour of every option that is not exactly at a  *)
(* threshold, and crosses the capacity line for an option that is too big. *)
BarAgrees(bar, options) ==
  /\ \A seg \in bar : 0 <= seg.start /\ seg.start < seg.end /\ seg.end <= GaugeMax
  /\ \A seg, other \in bar : seg # other => seg.end <= other.start \/ other.end <= seg.start
  /\ \E first \in bar :
       /\ first.cls = Colour(BestVerdict({options[i].verdict : i \in DOMAIN options}))
       /\ \A seg \in bar \ {first} : \E before \in bar : before.end = seg.start
  /\ \A i \in DOMAIN options :
       LET o == options[i]
       IN /\ 100 * o.estimate \notin {70 * Usable, 95 * Usable}
               => \E seg \in bar : seg.cls = Colour(o.verdict)
          /\ o.estimate > Usable => \E seg \in bar : seg.end > 60 * Usable

(* What a row shows is what the last answer to its model says: chip,       *)
(* counts and bar tell the same of it.                                     *)
RowAgrees(row, report) ==
  /\ report.status = "success" =>
       /\ BarAgrees(row.bar, report.options)
       /\ row.verdict.chip = "comfortable" <=> row.verdict.fit > 0
       /\ row.verdict.chip = "wont_fit" <=> row.verdict.fit + row.verdict.tight = 0
       /\ RadarTable.legend
  /\ row.bar = {} <=> row.verdict.chip \in {"Estimating", "Unknown"}
  /\ row.verdict.chip = "Estimating" <=> ~report.loaded /\ report.fetching

(* Every row of the table is that of its own model - its place in the      *)
(* list, its formats, its chip and its bar - in whatever order the lists   *)
(* of both orders and the reports arrive, fail or are asked again, and     *)
(* under any filter.                                                       *)
RowsTellTheirModel ==
  RadarTable.rendered =>
    /\ {row.model : row \in Rows} = Range(Listed) \cap filter
    /\ \A row \in Rows :
         /\ Listed[row.rank] = row.model
         /\ row.formats = FormatChips(reports[row.model])
         /\ RowAgrees(row, reports[row.model])

=============================================================================
