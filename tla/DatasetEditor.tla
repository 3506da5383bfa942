---------------------------- MODULE DatasetEditor ----------------------------
(***************************************************************************)
(* The dataset page: its location, its cached list of cases, the editor it *)
(* mounts, the requests the editor makes, and the store of case files that *)
(* answers them (DatasetPage, CaseEditor, dataset/store.py).               *)
(*                                                                         *)
(* The cases are of one category: choosing another only closes the case.   *)
(* Of a form, the id and the first message are edited; the other fields    *)
(* (FormEditor) take no part in the exchange.  Rendering is part of every  *)
(* action: it decides whether an editor is mounted, kept or replaced.      *)
(***************************************************************************)
EXTENDS CaseForm

CONSTANTS CaseIds,    \* ids of cases
          Contents,   \* texts a first message may hold
          Requests    \* bound: requests of the editors under way at once

(* ID_PATTERN refuses the ids that would not name a file.                  *)
ASSUME DatasetAssumption ==
  /\ CaseIds # {} /\ CaseIds \cap BadIds = {}
  /\ "none" \notin Requests

VARIABLES
  files,      \* data/test_cases: the cases on disk
  loc,        \* the URL's ?case= and the draft in location.state
  cases,      \* useQuery(datasetCases): its status ("failed": an error, and no data), its data,
              \* a fetch under way
  editor,     \* the mounted CaseEditor; key "" when there is none
  requests,   \* POST, PUT and DELETE requests
  missed      \* history: an answer was lost, or heard with the first list on its way,
              \* and no fetch was started since

dataVars == <<files, loc, cases, editor, requests, missed>>

NewCase == "new"
NoCase == ""
NoRequest == "none"
At(case, draft) == [case |-> case, draft |-> draft]
Free == [op |-> "none", case |-> {}, stage |-> "free"]
Failure == [op |-> "none", case |-> {}, stage |-> "failed"]

Form(id, text) == [EmptyForm("c") EXCEPT !.id = id, !.messages[1].content = text]
WithId(set, id) == {c \in set : c.id = id}

(* ---- rendering -------------------------------------------------------- *)

(* The form an editor mounted now would start from: none, or one.          *)
InitialForm(l, data) ==
  LET match == {CaseToForm(c) : c \in WithId(data, l.case)}
  IN CASE l.case = NewCase -> IF l.draft # {} THEN l.draft ELSE {EmptyForm("c")}
       [] l.case = NoCase  -> {}
       [] OTHER            -> IF match # {} THEN match ELSE l.draft

IsEmptyDataset(l, q) == q.status = "success" /\ q.data = {} /\ l.case # NewCase

NoEditor == [key |-> NoCase, form |-> EmptyForm("c"), saving |-> NoRequest]

(* Mutant: without a key, a mounted editor keeps its form. *)
RenderedInPlace(l, q, ed) ==
  LET initial == InitialForm(l, q.data)
  IN IF IsEmptyDataset(l, q) \/ initial = {} THEN NoEditor
     ELSE [key |-> l.case, form |-> IF ed = NoEditor THEN CHOOSE f \in initial : TRUE ELSE ed.form,
           saving |-> NoRequest]

(* An editor stays mounted while its key does; else one is mounted with    *)
(* the form the location and the list give.                                *)
Rendered(l, q, ed) ==
  LET initial == InitialForm(l, q.data)
  IN IF IsEmptyDataset(l, q) \/ initial = {} THEN NoEditor
     ELSE IF ed.key = l.case THEN ed
     ELSE LET f == CHOOSE f \in initial : TRUE
          IN [key |-> l.case, form |-> f, saving |-> NoRequest]

DataInit ==
  /\ files \in {{}, {FormToCase(Form(id, text)) : id \in {CHOOSE i \in CaseIds : TRUE},
                                                  text \in {CHOOSE t \in Contents : TRUE}}}
  /\ \E case \in CaseIds \cup {NoCase, NewCase} : loc = At(case, {})
  /\ cases = [status |-> "pending", data |-> {}, fetch |-> "asked", read |-> {}]
  /\ editor = Rendered(loc, cases, NoEditor)
  /\ requests = [r \in Requests |-> Free]
  /\ missed = FALSE

(* ---- the page --------------------------------------------------------- *)

(* The location changes, and the page renders with it. *)
Navigate(l) == loc' = l /\ editor' = Rendered(l, cases, editor)

OpenNewCase == Navigate(At(NewCase, {})) /\ UNCHANGED <<files, cases, requests, missed>>

OpenCase(id) ==
  /\ WithId(cases.data, id) # {}
  /\ Navigate(At(id, {}))
  /\ UNCHANGED <<files, cases, requests, missed>>

SelectCategory == Navigate(At(NoCase, {})) /\ UNCHANGED <<files, cases, requests, missed>>

Mounted == editor.key # NoCase

HandleDuplicated ==
  /\ Mounted
  /\ DuplicateForm(editor.form).id \in CaseIds \cup {""}
  /\ Navigate(At(NewCase, {DuplicateForm(editor.form)}))
  /\ UNCHANGED <<files, cases, requests, missed>>

(* The id of a case that exists is read-only. *)
Edit(id, text) ==
  /\ Mounted
  /\ editor.key # NewCase => id = editor.form.id
  /\ editor' = [editor EXCEPT !.form.id = id, !.form.messages[1].content = text]
  /\ UNCHANGED <<files, loc, cases, requests, missed>>

RequestSent(r, op, set) ==
  /\ requests[r] = Free
  /\ requests' = [requests EXCEPT ![r] = [op |-> op, case |-> set, stage |-> "sent"]]
  /\ UNCHANGED <<files, loc, cases, missed>>

(* Save is disabled while this editor's save is pending.  A form with      *)
(* errors is not sent.                                                     *)
HandleSave(r) ==
  /\ Mounted /\ editor.saving = NoRequest /\ requests[r] = Free
  /\ FormErrors(editor.form) = {}
  /\ RequestSent(r, IF editor.key = NewCase THEN "create" ELSE "update", {FormToCase(editor.form)})
  /\ editor' = [editor EXCEPT !.saving = r]

(* There is no such button on a new case; nothing disables it. *)
HandleDelete(r) ==
  /\ Mounted /\ editor.key # NewCase
  /\ RequestSent(r, "delete", {FormToCase(editor.form)})
  /\ UNCHANGED editor

(* ---- the server: each check and each write of the store --------------- *)

Of(r) == CHOOSE c \in requests[r].case : TRUE

CheckFile(r) ==
  /\ requests[r].stage = "sent"
  /\ LET exists == WithId(files, Of(r).id) # {}
         refused == IF requests[r].op = "create" THEN exists ELSE ~exists
     IN requests' = [requests EXCEPT ![r] = IF refused THEN Failure ELSE [@ EXCEPT !.stage = "checked"]]
  /\ UNCHANGED <<files, loc, cases, editor, missed>>

(* write_text replaces whatever is there now; unlink fails when it is gone. *)
WriteFile(r) ==
  /\ requests[r].stage = "checked"
  /\ LET others == files \ WithId(files, Of(r).id)
         fails == requests[r].op = "delete" /\ others = files
     IN /\ files' = IF requests[r].op = "delete" THEN others ELSE others \cup {Of(r)}
        /\ requests' = [requests EXCEPT ![r] = IF fails THEN Failure ELSE [@ EXCEPT !.stage = "ok"]]
  /\ UNCHANGED <<loc, cases, editor, missed>>

(* ---- answers ---------------------------------------------------------- *)

(* Mutant: a fetch that is under way is good enough. *)
InvalidateOrJoin ==
  /\ cases' = IF cases.fetch = "idle" THEN [cases EXCEPT !.fetch = "asked"] ELSE cases
  /\ missed' = FALSE

(* invalidateQueries: a fetch under way is dropped for a new one, unless   *)
(* it is the first: the query keeps it as long as it has no data.          *)
Invalidate ==
  IF cases.fetch = "read" /\ cases.status \in {"pending", "failed"}
  THEN missed' = TRUE /\ UNCHANGED cases
  ELSE missed' = FALSE /\ cases' = [cases EXCEPT !.fetch = "asked", !.read = {}]

SaveDone(ed, r) == IF ed.saving = r THEN [ed EXCEPT !.saving = NoRequest] ELSE ed

(* onSuccess runs whether or not the editor is still mounted: the list is  *)
(* fetched again and the page goes to the saved case, or closes the open   *)
(* one after a delete.                                                     *)
RequestSucceeded(r) ==
  /\ requests[r].stage = "ok"
  /\ Invalidate
  /\ LET l == IF requests[r].op = "delete" THEN At(NoCase, {})
              ELSE At(Of(r).id, {CaseToForm(Of(r))})
     IN loc' = l /\ editor' = Rendered(l, cases', SaveDone(editor, r))
  /\ requests' = [requests EXCEPT ![r] = Free]
  /\ UNCHANGED files

(* A status that is not 2xx, or an answer that never comes. *)
RequestFailed(r) ==
  /\ requests[r].stage \in {"failed", "ok"}
  /\ missed' = (missed \/ requests[r].stage = "ok")
  /\ editor' = SaveDone(editor, r)
  /\ requests' = [requests EXCEPT ![r] = Free]
  /\ UNCHANGED <<files, loc, cases>>

(* ---- GET /dataset/cases ----------------------------------------------- *)

LoadCases ==
  /\ cases.fetch = "asked"
  /\ cases' = [cases EXCEPT !.fetch = "read", !.read = files]
  /\ UNCHANGED <<files, loc, editor, requests, missed>>

CasesArrive ==
  /\ cases.fetch = "read"
  /\ cases' = [status |-> "success", data |-> cases.read, fetch |-> "idle", read |-> {}]
  /\ editor' = Rendered(loc, cases', editor)
  /\ UNCHANGED <<files, loc, requests, missed>>

(* Also when a file is rewritten or deleted while load_cases reads it.     *)
CasesFail ==
  /\ cases.fetch # "idle"
  /\ cases' = [cases EXCEPT !.status = IF @ \in {"pending", "failed"} THEN "failed" ELSE "error",
                            !.fetch = "idle", !.read = {}]
  /\ editor' = Rendered(loc, cases', editor)
  /\ missed' = TRUE
  /\ UNCHANGED <<files, loc, requests>>

(* The window gets the focus again, or the page is opened again. *)
Refocus ==
  /\ cases.fetch = "idle"
  /\ Invalidate
  /\ UNCHANGED <<files, loc, editor, requests>>

DataNext ==
  \/ OpenNewCase \/ SelectCategory \/ HandleDuplicated
  \/ \E id \in CaseIds : OpenCase(id)
  \/ \E id \in CaseIds, text \in Contents : Edit(id, text)
  \/ \E r \in Requests : \/ HandleSave(r) \/ HandleDelete(r) \/ CheckFile(r) \/ WriteFile(r)
                         \/ RequestSucceeded(r) \/ RequestFailed(r)
  \/ LoadCases \/ CasesArrive \/ CasesFail \/ Refocus

DataSpec == DataInit /\ [][DataNext]_dataVars

(* ---- properties ------------------------------------------------------- *)

DataTypeOK ==
  /\ \A c \in files \cup cases.data \cup cases.read : c.id \in CaseIds
  /\ loc.case \in CaseIds \cup {NoCase, NewCase} /\ Cardinality(loc.draft) <= 1
  /\ cases.status \in {"pending", "success", "error", "failed"}
  /\ cases.fetch \in {"idle", "asked", "read"}
  /\ editor.saving \in Requests \cup {NoRequest}
  /\ \A r \in Requests : requests[r].stage \in {"free", "sent", "checked", "ok", "failed"}

(* What is edited is what the location names: an editor of an existing     *)
(* case holds that case's id, a pending save in it is its own, and a draft *)
(* that travels with a location is of its case - however answers of other  *)
(* editors' requests move the page meanwhile.  So Save writes the case     *)
(* that is open.  No two files are of one case.                            *)
DataInv ==
  /\ DataTypeOK
  /\ \A c, d \in files : c.id = d.id => c = d
  /\ loc.case \notin {NewCase, NoCase} => \A f \in loc.draft : f.id = loc.case
  /\ Mounted =>
       /\ editor.key = loc.case
       /\ editor.key # NewCase => editor.form.id = editor.key
       /\ editor.saving # NoRequest =>
            LET sent == requests[editor.saving]
            IN /\ sent # Free
               /\ sent # Failure => sent.op = IF editor.key = NewCase THEN "create" ELSE "update"
               /\ editor.key # NewCase => \A c \in sent.case : c.id = editor.key

(* Once every request is answered and no fetch is under way, the list      *)
(* shown is the cases on disk, whatever fetch was under way when a save or *)
(* a delete was made - unless an answer was lost since the last fetch, or  *)
(* came when the first list was on its way.                                *)
ListCatchesUp ==
  ~missed /\ cases.fetch = "idle" /\ (\A r \in Requests : requests[r] = Free)
    => cases.status = "success" /\ cases.data = files

(* CaseEditor.tsx:37 "The parent remounts this component (via              *)
(* key={caseParam}) whenever the case being edited changes": so Duplicate, *)
(* wherever it is pressed, leads to an editor that holds the copy.         *)
DraftReachesEditor ==
  [][HandleDuplicated => editor'.form = DuplicateForm(editor.form)]_dataVars

=============================================================================
