----------------------------- MODULE PagesProofs -----------------------------
(***************************************************************************)
(* Proofs about the dataset page (DatasetEditor), about the client's side  *)
(* of an evaluation run (EvalClient) and about the Radar page (Radar), for *)
(* any number of cases, requests, runs, calls, models and options.         *)
(***************************************************************************)
EXTENDS DatasetEditor, EvalClient, Radar, FiniteSetTheorems, WellFoundedInduction, TLAPS

(***************************************************************************)
(* The dataset page: the inductive invariant.                              *)
(***************************************************************************)

\* A form has an id, which is that of a case, or not yet entered.
IsForm(f) == "id" \in DOMAIN f /\ f.id \in CaseIds \cup {""}

\* The location names a case, none or a new one, with at most one draft, which is of that case.
LocationOK(l) ==
  /\ l = [case |-> l.case, draft |-> l.draft]
  /\ l.case \in CaseIds \cup {NoCase, NewCase}
  /\ l.draft = {} \/ \E f : l.draft = {f}
  /\ \A f \in l.draft : IsForm(f) /\ (l.case \notin {NewCase, NoCase} => f.id = l.case)

\* The query's record, with cases of which each has an id.
CasesOK(q) ==
  /\ q = [status |-> q.status, data |-> q.data, fetch |-> q.fetch, read |-> q.read]
  /\ q.status \in {"pending", "success", "error", "failed"} /\ q.fetch \in {"idle", "asked", "read"}
  /\ \A c \in q.data \cup q.read : c.id \in CaseIds

\* A request has its record, and until its answer is taken the one case it is about.
RequestOK(q) ==
  /\ q = [op |-> q.op, case |-> q.case, stage |-> q.stage]
  /\ q.stage \in {"free", "sent", "checked", "ok", "failed"}
  /\ q.stage = "free" => q = Free
  /\ q.stage = "failed" => q = Failure
  /\ q.stage \in {"sent", "checked", "ok"} =>
       /\ q.op \in {"create", "update", "delete"}
       /\ \E c : q.case = {c} /\ c.id \in CaseIds

\* An editor is of one case, and the save it waits for is its own.
EditorOK(ed, reqs) ==
  /\ ed = [key |-> ed.key, form |-> ed.form, saving |-> ed.saving]
  /\ IsForm(ed.form) /\ ed.saving \in Requests \cup {NoRequest}
  /\ ed.key \in CaseIds \cup {NoCase, NewCase}
  /\ ed.key = NoCase => ed.saving = NoRequest
  /\ ed.key \notin {NewCase, NoCase} => ed.form.id = ed.key
  /\ ed.saving # NoRequest =>
       LET sent == reqs[ed.saving]
       IN /\ sent # Free
          /\ sent # Failure => sent.op = IF ed.key = NewCase THEN "create" ELSE "update"
          /\ ed.key # NewCase => \A c \in sent.case : c.id = ed.key

FilesOK(set) ==
  /\ \A c \in set : c.id \in CaseIds
  /\ \A c, d \in set : c.id = d.id => c = d

\* What is on its way to the list is what is on disk, unless a request has written since, and
\* its answer, still to come, will have the list fetched again.
CatchUpOK ==
  ~missed /\ (\A r \in Requests : requests[r].stage # "ok") =>
    /\ cases.fetch = "idle" => cases.status = "success" /\ cases.data = files
    /\ cases.fetch = "read" => cases.read = files

DatasetInv ==
  /\ FilesOK(files) /\ LocationOK(loc) /\ CasesOK(cases)
  /\ EditorOK(editor, requests) /\ editor.key \in {NoCase, loc.case}
  /\ requests = [r \in Requests |-> requests[r]]
  /\ \A r \in Requests : RequestOK(requests[r])
  /\ missed \in BOOLEAN /\ CatchUpOK

-----------------------------------------------------------------------------
(***************************************************************************)
(* Forms and rendering.                                                    *)
(***************************************************************************)

\* The id of a case is neither empty nor blank, and trimming leaves it alone.
LEMMA IdsAre ==
  /\ "" \notin CaseIds /\ \A id \in CaseIds : Trim(id) = id /\ id \notin BadIds
  /\ NoRequest \notin Requests
BY DatasetAssumption DEF BadIds, Trim, Blank, NoRequest

\* The forms there are: an empty one, a case's, a copy that is not named yet, and what a form
\* without errors, or of a case that exists, is saved as.
LEMMA FormsAre ==
  /\ IsForm(EmptyForm("c"))
  /\ \A c : c.id \in CaseIds => IsForm(CaseToForm(c)) /\ CaseToForm(c).id = c.id
  /\ \A f : FormToCase(f).id = Trim(f.id)
  /\ \A f : IsForm(f) /\ f.id \in CaseIds => FormToCase(f).id = f.id
<1>1. IsForm(EmptyForm("c"))
  BY DEF IsForm, EmptyForm
<1>2. \A c : c.id \in CaseIds => IsForm(CaseToForm(c)) /\ CaseToForm(c).id = c.id
  BY DEF IsForm, CaseToForm
<1>3. \A f : FormToCase(f).id = Trim(f.id)
  BY DEF FormToCase
<1> QED BY <1>1, <1>2, <1>3, IdsAre

\* What an editor mounted for a location starts from is of the case the location names.
LEMMA InitialFormsAre ==
  ASSUME NEW l, LocationOK(l), NEW data, \A c \in data : c.id \in CaseIds,
         NEW f \in InitialForm(l, data)
  PROVE  IsForm(f) /\ l.case # NoCase /\ (l.case # NewCase => f.id = l.case)
<1>1. CASE l.case = NewCase
  BY <1>1, FormsAre DEF InitialForm, LocationOK, NewCase, NoCase
<1>2. CASE l.case = NoCase
  BY <1>2 DEF InitialForm, NewCase, NoCase
<1>3. CASE l.case \notin {NewCase, NoCase}
  <2> DEFINE match == {CaseToForm(c) : c \in WithId(data, l.case)}
  <2>1. InitialForm(l, data) = IF match # {} THEN match ELSE l.draft
    BY <1>3 DEF InitialForm
  <2>2. CASE f \in l.draft
    BY <1>3, <2>2 DEF LocationOK
  <2>3. CASE f \in match
    <3>1. PICK c \in data : c.id = l.case /\ f = CaseToForm(c)
      BY <2>3 DEF WithId
    <3> QED BY <1>3, <3>1, FormsAre
  <2> QED BY <2>1, <2>2, <2>3
<1> QED BY <1>1, <1>2, <1>3

\* A form with another id, or with other messages too, is a form.
LEMMA EditedIsForm ==
  ASSUME NEW f, IsForm(f), NEW id \in CaseIds \cup {""}
  PROVE  /\ IsForm([f EXCEPT !.id = id])
         /\ \A m : /\ IsForm([f EXCEPT !.id = id, !.messages = m])
                  /\ [f EXCEPT !.id = id, !.messages = m].id = id
BY DEF IsForm

LEMMA NoEditorOK == ASSUME NEW reqs PROVE EditorOK(NoEditor, reqs)
<1>1. NoEditor.key = NoCase /\ NoEditor.saving = NoRequest /\ NoEditor.form = EmptyForm("c")
      /\ NoEditor = [key |-> NoEditor.key, form |-> NoEditor.form, saving |-> NoEditor.saving]
  BY DEF NoEditor
<1> QED BY <1>1, FormsAre DEF EditorOK, NoCase, NewCase

\* Rendering keeps an editor right, and mounts one of the case the location names, or none.
LEMMA RenderedOK ==
  ASSUME NEW l, NEW q, NEW ed, NEW reqs, LocationOK(l), CasesOK(q), EditorOK(ed, reqs)
  PROVE  EditorOK(Rendered(l, q, ed), reqs) /\ Rendered(l, q, ed).key \in {NoCase, l.case}
<1> DEFINE initial == InitialForm(l, q.data)
<1>1. CASE IsEmptyDataset(l, q) \/ initial = {}
  <2>1. Rendered(l, q, ed) = NoEditor
    BY <1>1 DEF Rendered
  <2> QED BY <2>1, NoEditorOK DEF NoEditor
<1>2. CASE ~ (IsEmptyDataset(l, q) \/ initial = {}) /\ ed.key = l.case
  <2>1. Rendered(l, q, ed) = ed
    BY <1>2 DEF Rendered
  <2> QED BY <1>2, <2>1
<1>3. CASE ~ (IsEmptyDataset(l, q) \/ initial = {}) /\ ed.key # l.case
  <2> DEFINE f == CHOOSE g \in initial : TRUE
             new == [key |-> l.case, form |-> f, saving |-> NoRequest]
  <2>1. Rendered(l, q, ed) = new
    BY <1>3 DEF Rendered
  <2>2. f \in initial
    BY <1>3
  <2> HIDE DEF f
  <2>3. \A c \in q.data : c.id \in CaseIds
    BY DEF CasesOK
  <2>4. IsForm(f) /\ l.case # NoCase /\ (l.case # NewCase => f.id = l.case)
    BY <2>2, <2>3, InitialFormsAre
  <2>5. new.key = l.case /\ new.form = f /\ new.saving = NoRequest
        /\ new = [key |-> new.key, form |-> new.form, saving |-> new.saving]
    OBVIOUS
  <2> HIDE DEF new
  <2>6. EditorOK(new, reqs)
    BY <2>4, <2>5 DEF EditorOK, LocationOK
  <2> QED BY <2>1, <2>5, <2>6
<1> QED BY <1>1, <1>2, <1>3

\* A location without a draft, and one with the draft of a form.
LEMMA LocationsAre ==
  /\ \A c \in CaseIds \cup {NoCase, NewCase} : LocationOK(At(c, {}))
  /\ \A c \in CaseIds \cup {NoCase, NewCase} : \A f :
       IsForm(f) /\ (c \notin {NewCase, NoCase} => f.id = c) => LocationOK(At(c, {f}))
<1>1. \A c, d : At(c, d).case = c /\ At(c, d).draft = d
                /\ At(c, d) = [case |-> At(c, d).case, draft |-> At(c, d).draft]
  BY DEF At
<1>2. ASSUME NEW c \in CaseIds \cup {NoCase, NewCase}
      PROVE  LocationOK(At(c, {}))
  <2> DEFINE l == At(c, {})
  <2>1. l.case = c /\ l.draft = {} /\ l = [case |-> l.case, draft |-> l.draft]
    BY <1>1
  <2> HIDE DEF l
  <2>2. LocationOK(l)
    BY <2>1 DEF LocationOK
  <2> QED BY <2>2 DEF l
<1>3. ASSUME NEW c \in CaseIds \cup {NoCase, NewCase}, NEW f, IsForm(f),
             c \notin {NewCase, NoCase} => f.id = c
      PROVE  LocationOK(At(c, {f}))
  <2> DEFINE l == At(c, {f})
  <2>1. l.case = c /\ l.draft = {f} /\ l = [case |-> l.case, draft |-> l.draft]
    BY <1>1
  <2> HIDE DEF l
  <2>2. \E g : l.draft = {g}
    BY <2>1
  <2>3. \A g \in l.draft : IsForm(g) /\ (l.case \notin {NewCase, NoCase} => g.id = l.case)
    BY <1>3, <2>1
  <2>4. LocationOK(l)
    BY <2>1, <2>2, <2>3 DEF LocationOK
  <2> QED BY <2>4 DEF l
<1> QED BY <1>2, <1>3

\* Another request, or this one's next stage, leaves the editor's save its own.
LEMMA EditorKeeps ==
  ASSUME NEW ed, NEW reqs, NEW next, EditorOK(ed, reqs),
         ed.saving # NoRequest =>
           /\ next[ed.saving] # Free
           /\ \/ next[ed.saving] = Failure
              \/ /\ reqs[ed.saving] # Failure
                 /\ next[ed.saving].op = reqs[ed.saving].op
                 /\ next[ed.saving].case = reqs[ed.saving].case
              \/ next[ed.saving] = reqs[ed.saving]
  PROVE  EditorOK(ed, next)
<1>1. Failure.case = {}
  BY DEF Failure
<1> QED BY <1>1 DEF EditorOK

\* The frame of an action of the page: the location changes, the list and the requests stay.
LEMMA NavigateKeeps ==
  ASSUME DatasetInv, NEW l, LocationOK(l), Navigate(l), UNCHANGED <<files, cases, requests, missed>>
  PROVE  DatasetInv'
<1>1. EditorOK(editor', requests) /\ editor'.key \in {NoCase, l.case} /\ loc' = l
  BY RenderedOK DEF DatasetInv, Navigate
<1> QED BY <1>1 DEF DatasetInv, CatchUpOK

-----------------------------------------------------------------------------
(***************************************************************************)
(* The dataset page: each action keeps the invariant.                      *)
(***************************************************************************)

LEMMA OpenNewCaseKeeps == DatasetInv /\ OpenNewCase => DatasetInv'
BY LocationsAre, NavigateKeeps DEF OpenNewCase

LEMMA SelectCategoryKeeps == DatasetInv /\ SelectCategory => DatasetInv'
BY LocationsAre, NavigateKeeps DEF SelectCategory

LEMMA OpenCaseKeeps ==
  ASSUME NEW id \in CaseIds, DatasetInv, OpenCase(id)
  PROVE  DatasetInv'
BY LocationsAre, NavigateKeeps DEF OpenCase

LEMMA HandleDuplicatedKeeps == DatasetInv /\ HandleDuplicated => DatasetInv'
<1> SUFFICES ASSUME DatasetInv, HandleDuplicated PROVE DatasetInv'
  OBVIOUS
<1>1. IsForm(DuplicateForm(editor.form))
  <2>1. IsForm(editor.form) /\ DuplicateForm(editor.form).id \in CaseIds \cup {""}
    BY DEF HandleDuplicated, DatasetInv, EditorOK
  <2> DEFINE id == IF editor.form.id = "" THEN "" ELSE editor.form.id \o "-copy"
  <2>2. DuplicateForm(editor.form) = [editor.form EXCEPT !.id = id]
    BY DEF DuplicateForm
  <2> HIDE DEF id
  <2>3. DOMAIN DuplicateForm(editor.form) = DOMAIN editor.form
    BY <2>2
  <2> QED BY <2>1, <2>3 DEF IsForm
<1>2. LocationOK(At(NewCase, {DuplicateForm(editor.form)}))
  BY <1>1, LocationsAre
<1> QED BY <1>2, NavigateKeeps DEF HandleDuplicated

\* Only the form changes, and its id only in a case that does not exist yet.
LEMMA EditKeeps ==
  ASSUME NEW id \in CaseIds, NEW text \in Contents, DatasetInv, Edit(id, text)
  PROVE  DatasetInv'
<1> DEFINE f == editor.form
           messages == [f.messages EXCEPT ![1].content = text]
           g == [f EXCEPT !.id = id, !.messages = messages]
<1>1. editor = [key |-> editor.key, form |-> f, saving |-> editor.saving] /\ IsForm(f)
  BY DEF DatasetInv, EditorOK
<1>2. editor' = [editor EXCEPT !.form = g]
  BY <1>1 DEF Edit
<1>3. IsForm(g) /\ g.id = id
  BY <1>1, EditedIsForm
<1> HIDE DEF g
<1>4. editor'.key = editor.key /\ editor'.form = g /\ editor'.saving = editor.saving
      /\ editor' = [key |-> editor'.key, form |-> editor'.form, saving |-> editor'.saving]
  BY <1>1, <1>2
<1>5. EditorOK(editor', requests)
  BY <1>3, <1>4 DEF Edit, DatasetInv, EditorOK
<1> QED BY <1>4, <1>5 DEF DatasetInv, Edit, CatchUpOK

\* A request that is sent is of one case.
LEMMA RequestSentKeeps ==
  ASSUME DatasetInv, NEW r \in Requests, NEW op \in {"create", "update", "delete"},
         NEW c, c.id \in CaseIds, RequestSent(r, op, {c})
  PROVE  /\ requests' = [s \in Requests |-> requests'[s]]
         /\ \A s \in Requests : RequestOK(requests'[s])
         /\ requests'[r].op = op /\ requests'[r].case = {c} /\ requests'[r].stage = "sent"
         /\ \A s \in Requests \ {r} : requests'[s] = requests[s]
         /\ requests[r] = Free
         /\ CatchUpOK'
<1> DEFINE q == [op |-> op, case |-> {c}, stage |-> "sent"]
<1>1. q.op = op /\ q.case = {c} /\ q.stage = "sent" /\ q = [op |-> q.op, case |-> q.case, stage |-> q.stage]
  OBVIOUS
<1>2. requests' = [requests EXCEPT ![r] = q] /\ UNCHANGED <<files, loc, cases, missed>>
  BY DEF RequestSent
<1> HIDE DEF q
<1>3. requests' = [s \in Requests |-> requests'[s]]
      /\ requests'[r] = q /\ \A s \in Requests \ {r} : requests'[s] = requests[s]
  BY <1>2 DEF DatasetInv
<1>4. \E d : q.case = {d} /\ d.id \in CaseIds
  BY <1>1
<1>5. RequestOK(q)
  BY <1>1, <1>4 DEF RequestOK
<1>6. requests[r] = Free /\ requests[r].stage = "free"
  BY DEF RequestSent, Free
<1>7. CatchUpOK'
  BY <1>1, <1>2, <1>3, <1>6 DEF CatchUpOK, DatasetInv
<1> QED BY <1>1, <1>3, <1>5, <1>6, <1>7 DEF DatasetInv

\* What is saved has the id of the form, which a form without errors has.
LEMMA SavedIdsAre ==
  ASSUME DatasetInv, Mounted, editor.key # NewCase \/ FormErrors(editor.form) = {}
  PROVE  /\ editor.form.id \in CaseIds /\ FormToCase(editor.form).id = editor.form.id
         /\ editor.key # NewCase => editor.form.id = editor.key
<1>1. editor.key # NewCase => editor.form.id = editor.key /\ editor.form.id \in CaseIds
  BY DEF DatasetInv, EditorOK, Mounted
<1>2. FormErrors(editor.form) = {} => Trim(editor.form.id) \notin BadIds
  BY DEF FormErrors
<1>3. FormErrors(editor.form) = {} => editor.form.id # ""
  BY <1>2 DEF Trim, BadIds, Blank
<1> QED BY <1>1, <1>3, FormsAre DEF DatasetInv, EditorOK, IsForm

LEMMA HandleSaveKeeps ==
  ASSUME NEW r \in Requests, DatasetInv, HandleSave(r)
  PROVE  DatasetInv'
<1> DEFINE op == IF editor.key = NewCase THEN "create" ELSE "update"
           c == FormToCase(editor.form)
<1>1. op \in {"create", "update", "delete"} /\ RequestSent(r, op, {c})
      /\ editor' = [editor EXCEPT !.saving = r]
  BY DEF HandleSave
<1>2. c.id \in CaseIds /\ (editor.key # NewCase => c.id = editor.key)
  BY SavedIdsAre DEF HandleSave
<1> HIDE DEF c
<1>3. /\ requests' = [s \in Requests |-> requests'[s]]
      /\ \A s \in Requests : RequestOK(requests'[s])
      /\ requests'[r].op = op /\ requests'[r].case = {c} /\ requests'[r].stage = "sent"
      /\ CatchUpOK'
  BY <1>1, <1>2, RequestSentKeeps
<1>4. requests'[r] # Free /\ requests'[r] # Failure
  BY <1>3 DEF Free, Failure
<1>5. editor'.key = editor.key /\ editor'.form = editor.form /\ editor'.saving = r
      /\ editor' = [key |-> editor'.key, form |-> editor'.form, saving |-> editor'.saving]
  BY <1>1 DEF DatasetInv, EditorOK
<1>6. EditorOK(editor', requests')
  BY <1>2, <1>3, <1>4, <1>5 DEF HandleSave, DatasetInv, EditorOK, Mounted
<1> QED BY <1>1, <1>3, <1>5, <1>6 DEF DatasetInv, RequestSent

LEMMA HandleDeleteKeeps ==
  ASSUME NEW r \in Requests, DatasetInv, HandleDelete(r)
  PROVE  DatasetInv'
<1> DEFINE c == FormToCase(editor.form)
<1>1. RequestSent(r, "delete", {c}) /\ editor' = editor
  BY DEF HandleDelete
<1>2. c.id \in CaseIds
  BY SavedIdsAre DEF HandleDelete
<1> HIDE DEF c
<1>3. /\ requests' = [s \in Requests |-> requests'[s]]
      /\ \A s \in Requests : RequestOK(requests'[s])
      /\ \A s \in Requests \ {r} : requests'[s] = requests[s]
      /\ requests[r] = Free /\ CatchUpOK'
  BY <1>1, <1>2, RequestSentKeeps
<1>4. EditorOK(editor, requests')
  <2>1. editor.saving # NoRequest => editor.saving \in Requests \ {r}
    BY <1>3 DEF DatasetInv, EditorOK
  <2> QED BY <2>1, <1>3, EditorKeeps DEF DatasetInv, EditorOK
<1> QED BY <1>1, <1>3, <1>4 DEF DatasetInv, RequestSent


\* The answer to one request changes no other.
LEMMA OthersKeep ==
  ASSUME DatasetInv, NEW r \in Requests, NEW q, RequestOK(q), requests' = [requests EXCEPT ![r] = q]
  PROVE  /\ requests' = [s \in Requests |-> requests'[s]]
         /\ \A s \in Requests : RequestOK(requests'[s])
         /\ requests'[r] = q /\ \A s \in Requests \ {r} : requests'[s] = requests[s]
BY DEF DatasetInv

LEMMA AnswersAre == RequestOK(Free) /\ RequestOK(Failure)
<1>1. Free.stage = "free" /\ Free = [op |-> Free.op, case |-> Free.case, stage |-> Free.stage]
  BY DEF Free
<1>2. Failure.stage = "failed"
      /\ Failure = [op |-> Failure.op, case |-> Failure.case, stage |-> Failure.stage]
  BY DEF Failure
<1> QED BY <1>1, <1>2 DEF RequestOK

\* The next stage of a request about one case.
LEMMA StagesAre ==
  ASSUME DatasetInv, NEW r \in Requests, requests[r].stage \in {"sent", "checked", "ok"},
         NEW stage \in {"sent", "checked", "ok"}
  PROVE  /\ requests[r].case = {Of(r)} /\ Of(r).id \in CaseIds
         /\ requests[r] # Free /\ requests[r] # Failure
         /\ LET q == [requests[r] EXCEPT !.stage = stage]
            IN RequestOK(q) /\ q.op = requests[r].op /\ q.case = requests[r].case /\ q.stage = stage
               /\ q # Free
<1> DEFINE q == [requests[r] EXCEPT !.stage = stage]
<1>1. RequestOK(requests[r])
  BY DEF DatasetInv
<1>2. PICK c : requests[r].case = {c} /\ c.id \in CaseIds
  BY <1>1 DEF RequestOK
<1>3. Of(r) = c
  BY <1>2 DEF Of
<1>4. requests[r] # Free /\ requests[r] # Failure
  BY DEF Free, Failure
<1>5. q.op = requests[r].op /\ q.case = {c} /\ q.stage = stage
      /\ q = [op |-> q.op, case |-> q.case, stage |-> q.stage]
  BY <1>1, <1>2 DEF RequestOK
<1> HIDE DEF q
<1>6. \E d : q.case = {d} /\ d.id \in CaseIds
  BY <1>2, <1>5
<1>7. RequestOK(q)
  BY <1>1, <1>5, <1>6 DEF RequestOK
<1>8. q # Free
  BY <1>5 DEF Free
<1> QED BY <1>2, <1>3, <1>4, <1>5, <1>7, <1>8 DEF q

\* A request that goes on about its case leaves the editor's save its own.
LEMMA SaveGoesOn ==
  ASSUME DatasetInv, NEW r \in Requests, requests[r] # Failure,
         \A s \in Requests \ {r} : requests'[s] = requests[s], requests'[r] # Free,
         \/ requests'[r] = Failure
         \/ requests'[r].op = requests[r].op /\ requests'[r].case = requests[r].case
  PROVE  EditorOK(editor, requests')
<1>1. EditorOK(editor, requests)
  BY DEF DatasetInv
<1>2. CASE editor.saving = r
  BY <1>1, <1>2, EditorKeeps
<1>3. CASE editor.saving # r
  <2>1. editor.saving # NoRequest =>
          requests'[editor.saving] = requests[editor.saving] /\ requests[editor.saving] # Free
    BY <1>1, <1>3 DEF EditorOK
  <2> QED BY <1>1, <2>1, EditorKeeps
<1> QED BY <1>2, <1>3

LEMMA CheckFileKeeps ==
  ASSUME NEW r \in Requests, DatasetInv, CheckFile(r)
  PROVE  DatasetInv'
<1> DEFINE q == [requests[r] EXCEPT !.stage = "checked"]
<1>1. requests[r].stage = "sent" /\ UNCHANGED <<files, loc, cases, editor, missed>>
      /\ \/ requests' = [requests EXCEPT ![r] = Failure]
         \/ requests' = [requests EXCEPT ![r] = q]
  BY DEF CheckFile
<1>2. /\ RequestOK(q) /\ q.op = requests[r].op /\ q.case = requests[r].case /\ q.stage = "checked"
      /\ q # Free /\ requests[r] # Failure
  BY <1>1, StagesAre
<1> HIDE DEF q
<1>3. Failure # Free /\ Failure.stage = "failed"
  BY DEF Failure, Free
<1>4. /\ requests' = [s \in Requests |-> requests'[s]]
      /\ \A s \in Requests : RequestOK(requests'[s])
      /\ requests'[r] \in {q, Failure} /\ \A s \in Requests \ {r} : requests'[s] = requests[s]
  BY <1>1, <1>2, AnswersAre, OthersKeep
<1>5. EditorOK(editor, requests')
  BY <1>2, <1>3, <1>4, SaveGoesOn
<1>6. \A s \in Requests : requests'[s].stage = "ok" <=> requests[s].stage = "ok"
  BY <1>1, <1>2, <1>3, <1>4
<1>7. CatchUpOK'
  BY <1>1, <1>6 DEF CatchUpOK, DatasetInv
<1> QED BY <1>1, <1>4, <1>5, <1>7 DEF DatasetInv

\* The file written is of its case alone, and a delete that fails finds the files as they were.
LEMMA WriteFileKeeps ==
  ASSUME NEW r \in Requests, DatasetInv, WriteFile(r)
  PROVE  DatasetInv'
<1> DEFINE q == [requests[r] EXCEPT !.stage = "ok"]
           others == files \ WithId(files, Of(r).id)
           fails == requests[r].op = "delete" /\ others = files
<1>1. /\ requests[r].stage = "checked" /\ UNCHANGED <<loc, cases, editor, missed>>
      /\ files' = IF requests[r].op = "delete" THEN others ELSE others \cup {Of(r)}
      /\ requests' = [requests EXCEPT ![r] = IF fails THEN Failure ELSE q]
  BY DEF WriteFile
<1>2. /\ RequestOK(q) /\ q.op = requests[r].op /\ q.case = requests[r].case /\ q.stage = "ok"
      /\ q # Free /\ requests[r] # Failure /\ Of(r).id \in CaseIds
  BY <1>1, StagesAre
<1> HIDE DEF q
<1>3. Failure # Free /\ Failure.stage = "failed"
  BY DEF Failure, Free
<1>4. FilesOK(files')
  BY <1>1, <1>2 DEF DatasetInv, FilesOK, WithId
<1>5. /\ requests' = [s \in Requests |-> requests'[s]]
      /\ \A s \in Requests : RequestOK(requests'[s])
      /\ requests'[r] = IF fails THEN Failure ELSE q
      /\ \A s \in Requests \ {r} : requests'[s] = requests[s]
  BY <1>1, <1>2, AnswersAre, OthersKeep
<1>6. EditorOK(editor, requests')
  BY <1>2, <1>3, <1>5, SaveGoesOn
<1>7. CatchUpOK'
  <2>1. CASE fails
    <3>1. files' = files
      BY <1>1, <2>1
    <3>2. \A s \in Requests : requests'[s].stage = "ok" <=> requests[s].stage = "ok"
      BY <1>1, <1>3, <1>5, <2>1
    <3> QED BY <1>1, <3>1, <3>2 DEF CatchUpOK, DatasetInv
  <2>2. CASE ~fails
    BY <1>2, <1>5, <2>2 DEF CatchUpOK
  <2> QED BY <2>1, <2>2
<1> QED BY <1>1, <1>4, <1>5, <1>6, <1>7 DEF DatasetInv


\* Asking for the list anew keeps its record, and what is asked for is not there yet.
LEMMA InvalidateKeeps ==
  ASSUME CasesOK(cases), Invalidate
  PROVE  /\ CasesOK(cases') /\ missed' \in BOOLEAN /\ (missed' \/ cases'.fetch = "asked")
         /\ cases'.data = cases.data /\ cases'.status = cases.status
<1>1. CASE cases.fetch = "read" /\ cases.status \in {"pending", "failed"}
  BY <1>1 DEF Invalidate
<1>2. CASE ~ (cases.fetch = "read" /\ cases.status \in {"pending", "failed"})
  <2>1. cases' = [cases EXCEPT !.fetch = "asked", !.read = {}] /\ missed' = FALSE
    BY <1>2 DEF Invalidate
  <2>2. /\ cases'.status = cases.status /\ cases'.data = cases.data /\ cases'.fetch = "asked"
        /\ cases'.read = {}
        /\ cases' = [status |-> cases'.status, data |-> cases'.data, fetch |-> cases'.fetch,
                     read |-> cases'.read]
    BY <2>1 DEF CasesOK
  <2> QED BY <2>1, <2>2 DEF CasesOK
<1> QED BY <1>1, <1>2

\* When a save has been answered, no editor waits for it.
LEMMA SaveIsDone ==
  ASSUME DatasetInv, NEW r \in Requests, requests' = [requests EXCEPT ![r] = Free]
  PROVE  EditorOK(SaveDone(editor, r), requests') /\ SaveDone(editor, r).key = editor.key
<1>1. EditorOK(editor, requests) /\ \A s \in Requests \ {r} : requests'[s] = requests[s]
  BY DEF DatasetInv
<1>2. CASE editor.saving = r
  <2> DEFINE ed == [editor EXCEPT !.saving = NoRequest]
  <2>1. ed.key = editor.key /\ ed.form = editor.form /\ ed.saving = NoRequest
        /\ ed = [key |-> ed.key, form |-> ed.form, saving |-> ed.saving]
    BY <1>1 DEF EditorOK
  <2>2. SaveDone(editor, r) = ed
    BY <1>2 DEF SaveDone
  <2> HIDE DEF ed
  <2>3. EditorOK(ed, requests')
    BY <1>1, <2>1 DEF EditorOK
  <2> QED BY <2>1, <2>2, <2>3
<1>3. CASE editor.saving # r
  <2>1. editor.saving # NoRequest =>
          requests'[editor.saving] = requests[editor.saving] /\ requests[editor.saving] # Free
    BY <1>1, <1>3 DEF EditorOK
  <2>2. SaveDone(editor, r) = editor
    BY <1>3 DEF SaveDone
  <2> QED BY <1>1, <2>1, <2>2, EditorKeeps
<1> QED BY <1>2, <1>3

\* The page goes to the case that was saved, or to none after a delete.
LEMMA RequestSucceededKeeps ==
  ASSUME NEW r \in Requests, DatasetInv, RequestSucceeded(r)
  PROVE  DatasetInv'
<1> DEFINE l == IF requests[r].op = "delete" THEN At(NoCase, {})
                ELSE At(Of(r).id, {CaseToForm(Of(r))})
<1>1. /\ requests[r].stage = "ok" /\ Invalidate /\ loc' = l
      /\ editor' = Rendered(l, cases', SaveDone(editor, r))
      /\ requests' = [requests EXCEPT ![r] = Free] /\ files' = files
  BY DEF RequestSucceeded
<1>2. Of(r).id \in CaseIds
  BY <1>1, StagesAre
<1>3. LocationOK(l)
  BY <1>2, FormsAre, LocationsAre
<1> HIDE DEF l
<1>4. /\ requests' = [s \in Requests |-> requests'[s]]
      /\ \A s \in Requests : RequestOK(requests'[s])
  BY <1>1, AnswersAre, OthersKeep
<1>5. CasesOK(cases') /\ missed' \in BOOLEAN /\ (missed' \/ cases'.fetch = "asked")
  BY <1>1, InvalidateKeeps DEF DatasetInv
<1>6. EditorOK(SaveDone(editor, r), requests')
  BY <1>1, SaveIsDone
<1>7. EditorOK(editor', requests') /\ editor'.key \in {NoCase, l.case}
  BY <1>1, <1>3, <1>5, <1>6, RenderedOK
<1>8. CatchUpOK'
  BY <1>5 DEF CatchUpOK
<1> QED BY <1>1, <1>3, <1>4, <1>5, <1>7, <1>8 DEF DatasetInv

LEMMA RequestFailedKeeps ==
  ASSUME NEW r \in Requests, DatasetInv, RequestFailed(r)
  PROVE  DatasetInv'
<1>1. /\ requests[r].stage \in {"failed", "ok"} /\ missed' = (missed \/ requests[r].stage = "ok")
      /\ editor' = SaveDone(editor, r) /\ requests' = [requests EXCEPT ![r] = Free]
      /\ UNCHANGED <<files, loc, cases>>
  BY DEF RequestFailed
<1>2. /\ requests' = [s \in Requests |-> requests'[s]]
      /\ \A s \in Requests : RequestOK(requests'[s])
      /\ \A s \in Requests \ {r} : requests'[s] = requests[s]
  BY <1>1, AnswersAre, OthersKeep
<1>3. EditorOK(editor', requests') /\ editor'.key = editor.key
  BY <1>1, SaveIsDone
<1>4. ~missed' => ~missed /\ requests[r].stage # "ok"
  BY <1>1
<1>5. CatchUpOK'
  BY <1>1, <1>2, <1>4 DEF CatchUpOK, DatasetInv
<1> QED BY <1>1, <1>2, <1>3, <1>5 DEF DatasetInv

LEMMA LoadCasesKeeps == DatasetInv /\ LoadCases => DatasetInv'
<1> SUFFICES ASSUME DatasetInv, LoadCases PROVE DatasetInv'
  OBVIOUS
<1>1. cases.fetch = "asked" /\ cases' = [cases EXCEPT !.fetch = "read", !.read = files]
      /\ UNCHANGED <<files, loc, editor, requests, missed>>
  BY DEF LoadCases
<1>2. /\ cases'.status = cases.status /\ cases'.data = cases.data /\ cases'.fetch = "read"
      /\ cases'.read = files
      /\ cases' = [status |-> cases'.status, data |-> cases'.data, fetch |-> cases'.fetch,
                   read |-> cases'.read]
  BY <1>1 DEF DatasetInv, CasesOK
<1>3. CasesOK(cases') /\ CatchUpOK'
  BY <1>1, <1>2 DEF CasesOK, CatchUpOK, DatasetInv, FilesOK
<1> QED BY <1>1, <1>3 DEF DatasetInv

\* The list arrives as it was read, and the page renders with it.
LEMMA CasesArriveKeeps == DatasetInv /\ CasesArrive => DatasetInv'
<1> SUFFICES ASSUME DatasetInv, CasesArrive PROVE DatasetInv'
  OBVIOUS
<1>1. /\ cases.fetch = "read"
      /\ cases' = [status |-> "success", data |-> cases.read, fetch |-> "idle", read |-> {}]
      /\ editor' = Rendered(loc, cases', editor) /\ UNCHANGED <<files, loc, requests, missed>>
  BY DEF CasesArrive
<1>2. /\ cases'.status = "success" /\ cases'.data = cases.read /\ cases'.fetch = "idle"
      /\ cases'.read = {}
      /\ cases' = [status |-> cases'.status, data |-> cases'.data, fetch |-> cases'.fetch,
                   read |-> cases'.read]
  BY <1>1
<1>3. CasesOK(cases')
  BY <1>2 DEF CasesOK, DatasetInv
<1>4. EditorOK(editor', requests) /\ editor'.key \in {NoCase, loc.case}
  BY <1>1, <1>3, RenderedOK DEF DatasetInv
<1>5. CatchUpOK'
  BY <1>1, <1>2 DEF CatchUpOK, DatasetInv
<1> QED BY <1>1, <1>3, <1>4, <1>5 DEF DatasetInv

LEMMA CasesFailKeeps == DatasetInv /\ CasesFail => DatasetInv'
<1> SUFFICES ASSUME DatasetInv, CasesFail PROVE DatasetInv'
  OBVIOUS
<1> DEFINE after == IF cases.status \in {"pending", "failed"} THEN "failed" ELSE "error"
<1>1. /\ cases' = [cases EXCEPT !.status = after, !.fetch = "idle", !.read = {}]
      /\ editor' = Rendered(loc, cases', editor) /\ missed' = TRUE
      /\ UNCHANGED <<files, loc, requests>>
  BY DEF CasesFail
<1>2. /\ cases'.status = after /\ cases'.data = cases.data /\ cases'.fetch = "idle"
      /\ cases'.read = {}
      /\ cases' = [status |-> cases'.status, data |-> cases'.data, fetch |-> cases'.fetch,
                   read |-> cases'.read]
  BY <1>1 DEF DatasetInv, CasesOK
<1>3. CasesOK(cases')
  BY <1>2 DEF CasesOK, DatasetInv
<1>4. EditorOK(editor', requests) /\ editor'.key \in {NoCase, loc.case}
  BY <1>1, <1>3, RenderedOK DEF DatasetInv
<1> QED BY <1>1, <1>3, <1>4 DEF DatasetInv, CatchUpOK

LEMMA RefocusKeeps == DatasetInv /\ Refocus => DatasetInv'
<1> SUFFICES ASSUME DatasetInv, Refocus PROVE DatasetInv'
  OBVIOUS
<1>1. UNCHANGED <<files, loc, editor, requests>> /\ CasesOK(cases') /\ missed' \in BOOLEAN
      /\ (missed' \/ cases'.fetch = "asked")
  BY InvalidateKeeps DEF Refocus, DatasetInv
<1> QED BY <1>1 DEF DatasetInv, CatchUpOK

-----------------------------------------------------------------------------
(***************************************************************************)
(* The dataset page: the theorems.                                         *)
(***************************************************************************)

LEMMA DatasetInit == DataInit => DatasetInv
<1> SUFFICES ASSUME DataInit PROVE DatasetInv
  OBVIOUS
<1>1. FilesOK(files)
  <2> DEFINE id == CHOOSE i \in CaseIds : TRUE
             c(text) == FormToCase(Form(id, text))
             first == CHOOSE t \in Contents : TRUE
  <2>1. id \in CaseIds
    BY DatasetAssumption
  <2>2. files = {} \/ files = {c(first)}
    BY DEF DataInit
  <2>3. \A text : c(text).id = id
    <3>1. \A text : Form(id, text).id = id
      BY DEF Form, EmptyForm
    <3> HIDE DEF id
    <3> QED BY <2>1, <3>1, FormsAre, IdsAre
  <2> HIDE DEF c, id
  <2> QED BY <2>1, <2>2, <2>3 DEF FilesOK
<1>2. LocationOK(loc)
  BY LocationsAre DEF DataInit
<1>3. /\ cases.status = "pending" /\ cases.data = {} /\ cases.fetch = "asked" /\ cases.read = {}
      /\ cases = [status |-> cases.status, data |-> cases.data, fetch |-> cases.fetch,
                  read |-> cases.read]
  BY DEF DataInit
<1>4. CasesOK(cases)
  BY <1>3 DEF CasesOK
<1>5. requests = [r \in Requests |-> requests[r]] /\ \A r \in Requests : RequestOK(requests[r])
  BY AnswersAre DEF DataInit
<1>6. EditorOK(editor, requests) /\ editor.key \in {NoCase, loc.case}
  BY <1>2, <1>4, NoEditorOK, RenderedOK DEF DataInit
<1> QED BY <1>1, <1>2, <1>3, <1>4, <1>5, <1>6 DEF DatasetInv, CatchUpOK, DataInit

LEMMA DatasetStep == DatasetInv /\ [DataNext]_dataVars => DatasetInv'
<1> SUFFICES ASSUME DatasetInv, [DataNext]_dataVars PROVE DatasetInv'
  OBVIOUS
<1>1. CASE OpenNewCase
  BY <1>1, OpenNewCaseKeeps
<1>2. CASE SelectCategory
  BY <1>2, SelectCategoryKeeps
<1>3. CASE HandleDuplicated
  BY <1>3, HandleDuplicatedKeeps
<1>4. CASE \E id \in CaseIds : OpenCase(id)
  BY <1>4, OpenCaseKeeps
<1>5. CASE \E id \in CaseIds, text \in Contents : Edit(id, text)
  BY <1>5, EditKeeps
<1>6. ASSUME NEW r \in Requests,
             \/ HandleSave(r) \/ HandleDelete(r) \/ CheckFile(r) \/ WriteFile(r)
             \/ RequestSucceeded(r) \/ RequestFailed(r)
      PROVE  DatasetInv'
  BY <1>6, HandleSaveKeeps, HandleDeleteKeeps, CheckFileKeeps, WriteFileKeeps,
     RequestSucceededKeeps, RequestFailedKeeps
<1>7. CASE LoadCases \/ CasesArrive \/ CasesFail \/ Refocus
  BY <1>7, LoadCasesKeeps, CasesArriveKeeps, CasesFailKeeps, RefocusKeeps
<1>8. CASE UNCHANGED dataVars
  BY <1>8 DEF dataVars, DatasetInv, CatchUpOK
<1> QED BY <1>1, <1>2, <1>3, <1>4, <1>5, <1>6, <1>7, <1>8 DEF DataNext

\* The page's state is always as the invariant says: however the answers of requests move the
\* page, and whichever lists are on their way (DatasetPage, CaseEditor, dataset/store.py).
THEOREM DatasetSafe == DataSpec => []DatasetInv
<1>1. DataInit => DatasetInv
  BY DatasetInit
<1>2. DatasetInv /\ [DataNext]_dataVars => DatasetInv'
  BY DatasetStep
<1> QED BY <1>1, <1>2, PTL DEF DataSpec

\* What is edited is what the location names: a save writes the case that is open, its editor
\* waits for its own request, and no two files are of one case.
THEOREM EditedIsOpen == DataSpec => []DataInv
<1>1. DatasetInv => DataInv
  <2> SUFFICES ASSUME DatasetInv PROVE DataInv
    OBVIOUS
  <2>1. Cardinality(loc.draft) <= 1
    <3>1. CASE loc.draft = {}
      BY <3>1, FS_EmptySet
    <3>2. CASE \E f : loc.draft = {f}
      BY <3>2, FS_Singleton
    <3> QED BY <3>1, <3>2 DEF DatasetInv, LocationOK
  <2>2. DataTypeOK
    BY <2>1 DEF DataTypeOK, DatasetInv, FilesOK, LocationOK, CasesOK, EditorOK, RequestOK
  <2> QED BY <2>2 DEF DataInv, DatasetInv, FilesOK, LocationOK, EditorOK, Mounted
<1> QED BY <1>1, DatasetSafe, PTL

\* Once every request is answered and no fetch is under way, the list is what is on disk
\* (invalidateQueries, load_cases), unless a loss has been noticed.
THEOREM ListIsOnDisk == DataSpec => []ListCatchesUp
<1>1. DatasetInv => ListCatchesUp
  BY DEF DatasetInv, CatchUpOK, ListCatchesUp, Free
<1> QED BY <1>1, DatasetSafe, PTL


-----------------------------------------------------------------------------
(***************************************************************************)
(* Following a run: the inductive invariant.                               *)
(***************************************************************************)

Event == [kind : {"progress", "done", "error"}, completed : Nat]
Call == [at : {"unmade", "first", "consuming", "refreshing", "over"}, run : Runs \cup {NoRun},
         wire : Seq(Event), stream : {"open", "ended", "broken"}, announced : Nat,
         wordless : BOOLEAN]
Entry == [request : Calls \cup {NoCall}, run : Runs \cup {NoRun}, completed : Nat,
          status : {"none", "streaming", "done", "error"}]
Report == [count : [Runs -> Nat], fetch : {"idle", "failed", "asked", "read"}, read : [Runs -> Nat],
           joined : BOOLEAN, empty : BOOLEAN]

ClientTypes ==
  /\ status \in [Runs -> {"absent", "running", "completed", "failed"}]
  /\ total \in [Runs -> Nat] /\ stored \in [Runs -> Nat]
  /\ call \in [Calls -> Call] /\ entry \in Entry
  /\ evals \in [open : BOOLEAN, pending : Calls \cup {NoCall}] /\ report \in Report

\* A run that has not begun has no result, and a completed one has a result for each case.
Counted(r) ==
  /\ stored[r] <= total[r]
  /\ status[r] = "absent" => stored[r] = 0
  /\ status[r] = "completed" => stored[r] = total[r]

\* The run of call k has ended with n results: all of them, or as many as it had when it
\* failed without a word.
TrueEnd(k, n) ==
  /\ n = stored[call[k].run]
  /\ \/ status[call[k].run] = "completed"
     \/ status[call[k].run] = "failed" /\ call[k].wordless

\* What an event of call k says was so when it was sent, and the last one still is.
EventOK(k, e) ==
  /\ call[k].run \in Runs /\ e.completed <= stored[call[k].run]
  /\ e.kind = "done" => TrueEnd(k, e.completed)

WireOK(k) ==
  /\ Len(call[k].wire) <= MaxEvents
  /\ \A n \in 1 .. Len(call[k].wire) : EventOK(k, call[k].wire[n])

\* The entry is of the run its call follows, and a call writes "streaming" only while it reads.
EntryOK ==
  /\ entry.run # NoRun => /\ entry.request \in Calls /\ call[entry.request].run = entry.run
                          /\ entry.completed <= stored[entry.run]
  /\ entry.status = "streaming" => entry.run # NoRun /\ call[entry.request].at = "consuming"
  /\ entry.status = "done" => entry.run # NoRun /\ TrueEnd(entry.request, entry.completed)

PendingOK == evals.pending # NoCall => call[evals.pending].at \in {"first", "refreshing"}

\* With a finished run in the entry of an open page, the report it has, or that has been read
\* for it, counts the results of the run, unless the last fetch failed or a report read before
\* was taken for the one needed.
ReportOK ==
  entry.status = "done" /\ evals.open /\ ~ report.joined =>
    /\ report.fetch = "idle" => report.count[entry.run] = entry.completed
    /\ report.fetch = "read" => report.read[entry.run] = entry.completed

FollowInv ==
  /\ ClientTypes /\ \A r \in Runs : Counted(r)
  /\ \A k \in Calls : WireOK(k)
  /\ EntryOK /\ PendingOK /\ ReportOK

-----------------------------------------------------------------------------
(***************************************************************************)
(* Following a run: the state's parts.                                     *)
(***************************************************************************)

LEMMA NumbersAre == NoRun \notin Runs /\ NoCall \notin Calls /\ Runs \subseteq Nat /\ Calls \subseteq Nat
<1>1. Cardinality(Runs) \in Nat /\ Cardinality(Calls) \in Nat
  BY ClientAssumption, FS_CardinalityType
<1>2. \A n \in Nat : 0 \notin 1 .. n /\ 1 .. n \subseteq Nat
  OBVIOUS
<1> QED BY <1>1, <1>2, ClientAssumption DEF NoRun, NoCall

\* The first event of a stream, and what is left of it.
LEMMA FirstEventIs ==
  ASSUME FollowInv, NEW k \in Calls, call[k].wire # <<>>
  PROVE  /\ Head(call[k].wire) \in Event /\ EventOK(k, Head(call[k].wire))
         /\ Tail(call[k].wire) \in Seq(Event) /\ Len(Tail(call[k].wire)) \in Nat
         /\ Len(Tail(call[k].wire)) <= MaxEvents
         /\ \A n \in 1 .. Len(Tail(call[k].wire)) : EventOK(k, Tail(call[k].wire)[n])
<1> DEFINE w == call[k].wire
<1>1. w \in Seq(Event) /\ w # <<>> /\ Len(w) <= MaxEvents
      /\ \A n \in 1 .. Len(w) : EventOK(k, w[n])
  BY DEF FollowInv, ClientTypes, Call, WireOK
<1> HIDE DEF w
<1>2. /\ Head(w) = w[1] /\ Head(w) \in Event /\ Len(w) \in Nat /\ Len(w) > 0
      /\ Tail(w) \in Seq(Event) /\ Len(Tail(w)) = Len(w) - 1
      /\ \A n \in 1 .. Len(Tail(w)) : Tail(w)[n] = w[n + 1]
  BY <1>1
<1>3. \A n \in 1 .. Len(Tail(w)) : n + 1 \in 1 .. Len(w)
  BY <1>2
<1>4. MaxEvents \in Nat
  BY ClientAssumption
<1>5. 1 \in 1 .. Len(w) /\ Len(Tail(w)) \in Nat /\ Len(Tail(w)) <= MaxEvents
  BY <1>1, <1>2, <1>4
<1>6. /\ Head(w) \in Event /\ EventOK(k, Head(w)) /\ Tail(w) \in Seq(Event)
      /\ \A n \in 1 .. Len(Tail(w)) : EventOK(k, Tail(w)[n])
  BY <1>1, <1>2, <1>3, <1>5
<1> QED BY <1>5, <1>6 DEF w

\* Each call follows the run it did.
SameRuns == \A j \in Calls : call'[j].run = call[j].run /\ call'[j].wordless = call[j].wordless

\* Call k, moved to a place with what is left on its stream.
Moved(k, at, w, stream) == [call EXCEPT ![k].at = at, ![k].wire = w, ![k].stream = stream]

\* The loop of one call moves, and may take events off its stream; the server does not move.
LEMMA LoopMoves ==
  ASSUME FollowInv, NEW k \in Calls,
         NEW at \in {"unmade", "first", "consuming", "refreshing", "over"},
         NEW s, NEW w, s \in {"open", "ended", "broken"},
         w = call[k].wire \/ w = <<>> \/ (w = Tail(call[k].wire) /\ call[k].wire # <<>>),
         call' = Moved(k, at, w, s), UNCHANGED vars
  PROVE  /\ call' \in [Calls -> Call] /\ call'[k].at = at /\ SameRuns
         /\ \A j \in Calls : j # k => call'[j] = call[j]
         /\ \A j \in Calls : WireOK(j)'
         /\ \A r \in Runs : Counted(r)'
         /\ UNCHANGED <<status, total, stored>>
<1>1. call[k] \in Call /\ call \in [Calls -> Call]
  BY DEF FollowInv, ClientTypes
<1>2. /\ w \in Seq(Event) /\ Len(w) \in Nat /\ Len(w) <= MaxEvents
      /\ \A n \in 1 .. Len(w) : EventOK(k, w[n])
  <2>1. CASE w = call[k].wire
    BY <1>1, <2>1 DEF FollowInv, WireOK, Call
  <2>2. CASE w = <<>>
    BY <2>2, ClientAssumption
  <2>3. CASE w = Tail(call[k].wire) /\ call[k].wire # <<>>
    BY <2>3, FirstEventIs
  <2> QED BY <2>1, <2>2, <2>3
<1>3. /\ call' = [call EXCEPT ![k] = [call[k] EXCEPT !.at = at, !.wire = w, !.stream = s]]
      /\ call' \in [Calls -> Call] /\ call'[k].at = at /\ call'[k].wire = w
      /\ SameRuns /\ \A j \in Calls : j # k => call'[j] = call[j]
  BY <1>1, <1>2 DEF Call, SameRuns, Moved
<1>4. UNCHANGED <<status, total, stored>>
  BY DEF vars
<1>5. ASSUME NEW j \in Calls, NEW e, EventOK(j, e) PROVE EventOK(j, e)'
  BY <1>3, <1>4, <1>5 DEF EventOK, TrueEnd, SameRuns
<1>6. ASSUME NEW j \in Calls PROVE WireOK(j)'
  <2>1. CASE j = k
    BY <1>2, <1>3, <1>5, <2>1 DEF WireOK
  <2>2. CASE j # k
    <3>1. WireOK(j)
      BY DEF FollowInv
    <3> QED BY <1>3, <1>5, <2>2, <3>1 DEF WireOK
  <2> QED BY <2>1, <2>2
<1>7. \A r \in Runs : Counted(r)'
  BY <1>4 DEF FollowInv, Counted
<1> QED BY <1>3, <1>4, <1>6, <1>7

\* A report a page needs anew is asked for, or the one on its way is taken for it.
LEMMA InvalidateReportKeeps ==
  ASSUME FollowInv, InvalidateReport
  PROVE  report' \in Report /\ (evals.open => report'.joined \/ report'.fetch = "asked")
<1>1. NoCount \in [Runs -> Nat]
  BY DEF NoCount
<1>2. report \in Report
  BY DEF FollowInv, ClientTypes
<1> QED BY <1>1, <1>2 DEF InvalidateReport, Report, FollowInv, ClientTypes

\* An event that is applied makes the entry what the run is, and has a finished run reported.
LEMMA ApplyEventKeeps ==
  ASSUME FollowInv, NEW k \in Calls, NEW e \in Event, EventOK(k, e), ApplyEvent(k, e),
         SameRuns, e.kind = "progress" => call'[k].at = "consuming",
         evals'.open = evals.open, UNCHANGED vars
  PROVE  entry' \in Entry /\ report' \in Report /\ EntryOK' /\ ReportOK'
<1>1. call[k].run \in Runs /\ UNCHANGED <<status, total, stored>> /\ k \in Calls
  BY DEF EventOK, vars
<1> DEFINE kind == CASE e.kind = "progress" -> "streaming"
                     [] e.kind = "done"     -> "done"
                     [] e.kind = "error"    -> "error"
<1>2. kind \in {"streaming", "done", "error"} /\ (kind = "streaming" <=> e.kind = "progress")
      /\ (kind = "done" <=> e.kind = "done")
  BY DEF Event
<1>3. entry' = [request |-> k, run |-> call[k].run, completed |-> e.completed, status |-> kind]
      /\ IF e.kind = "progress" THEN report' = report ELSE InvalidateReport
  BY DEF ApplyEvent
<1> HIDE DEF kind
<1>4. /\ entry' \in Entry /\ entry'.request = k /\ entry'.run = call[k].run
      /\ entry'.completed = e.completed /\ entry'.status = kind
  BY <1>1, <1>2, <1>3 DEF Entry, Event
<1>5. report' \in Report /\ (kind = "done" /\ evals.open => report'.joined \/ report'.fetch = "asked")
  BY <1>2, <1>3, InvalidateReportKeeps DEF FollowInv, ClientTypes
<1>6. EntryOK'
  BY <1>1, <1>2, <1>4, NumbersAre DEF EntryOK, EventOK, TrueEnd, SameRuns
<1>7. ReportOK'
  BY <1>4, <1>5 DEF ReportOK
<1> QED BY <1>4, <1>5, <1>6, <1>7

\* The entry stays, whatever its call's loop does, when that does not end while it reads.
LEMMA EntryStays ==
  ASSUME FollowInv, SameRuns, UNCHANGED <<vars, entry>>,
         entry.status = "streaming" => call'[entry.request].at = call[entry.request].at
  PROVE  EntryOK'
<1>1. UNCHANGED <<status, total, stored>>
  BY DEF vars
<1> QED BY <1>1 DEF FollowInv, EntryOK, TrueEnd, SameRuns

\* Neither the report nor the entry moves, and the page does not open.
LEMMA ReportStays ==
  ASSUME FollowInv, UNCHANGED <<vars, report>>, evals'.open => evals.open,
         entry'.status = "done" => entry' = entry
  PROVE  ReportOK'
BY DEF FollowInv, ReportOK, vars


-----------------------------------------------------------------------------
(***************************************************************************)
(* Following a run: each action keeps the invariant.                       *)
(***************************************************************************)

LEMMA HandleSubmitKeeps ==
  ASSUME NEW k \in Calls, FollowInv, HandleSubmit(k)
  PROVE  FollowInv'
<1>1. /\ call[k].at = "unmade" /\ call' = [call EXCEPT ![k].at = "first"]
      /\ evals' = [evals EXCEPT !.pending = k] /\ evals.open
      /\ UNCHANGED <<vars, entry, report>>
  BY DEF HandleSubmit
<1>2. /\ call' = Moved(k, "first", call[k].wire, call[k].stream)
      /\ call[k].stream \in {"open", "ended", "broken"}
  BY <1>1 DEF FollowInv, ClientTypes, Call, Moved
<1>3. /\ call' \in [Calls -> Call] /\ call'[k].at = "first"
      /\ SameRuns /\ \A j \in Calls : j # k => call'[j] = call[j]
      /\ (\A j \in Calls : WireOK(j)') /\ (\A r \in Runs : Counted(r)')
      /\ UNCHANGED <<status, total, stored>>
  BY <1>1, <1>2, LoopMoves
<1>4. /\ evals' \in [open : BOOLEAN, pending : Calls \cup {NoCall}]
      /\ evals'.pending = k /\ evals'.open = evals.open
  BY <1>1 DEF FollowInv, ClientTypes
<1>5. EntryOK' /\ ReportOK' /\ PendingOK'
  <2>1. entry.status = "streaming" => entry.request \in Calls \ {k}
    BY <1>1 DEF FollowInv, EntryOK
  <2>2. EntryOK'
    BY <1>1, <1>3, <2>1, EntryStays
  <2>3. ReportOK'
    BY <1>1, <1>4, ReportStays
  <2> QED BY <1>3, <1>4, <2>2, <2>3 DEF PendingOK
<1> QED BY <1>1, <1>3, <1>4, <1>5 DEF FollowInv, ClientTypes

LEMMA LeaveEvalsKeeps == FollowInv /\ LeaveEvals => FollowInv'
<1> SUFFICES ASSUME FollowInv, LeaveEvals PROVE FollowInv'
  OBVIOUS
<1>1. evals' = [open |-> FALSE, pending |-> NoCall] /\ UNCHANGED <<vars, call, entry, report>>
  BY DEF LeaveEvals
<1> QED BY <1>1 DEF FollowInv, ClientTypes, Counted, WireOK, EventOK, TrueEnd, EntryOK, PendingOK,
                    ReportOK, vars

\* What no action of the page or of the report touches.
LEMMA OthersStay ==
  ASSUME FollowInv, UNCHANGED <<vars, call, entry>>, report' \in Report, ReportOK', PendingOK',
         evals' \in [open : BOOLEAN, pending : Calls \cup {NoCall}]
  PROVE  FollowInv'
BY DEF FollowInv, ClientTypes, Counted, WireOK, EventOK, TrueEnd, EntryOK, vars

LEMMA OpenEvalsKeeps == FollowInv /\ OpenEvals => FollowInv'
<1> SUFFICES ASSUME FollowInv, OpenEvals PROVE FollowInv'
  OBVIOUS
<1>1. /\ evals' = [evals EXCEPT !.open = TRUE] /\ UNCHANGED <<vars, call, entry>>
      /\ report' = IF report.fetch = "read" THEN [report EXCEPT !.joined = TRUE]
                   ELSE [report EXCEPT !.fetch = "asked", !.joined = FALSE]
  BY DEF OpenEvals
<1>2. report \in Report /\ evals \in [open : BOOLEAN, pending : Calls \cup {NoCall}] /\ PendingOK
  BY DEF FollowInv, ClientTypes
<1>3. report' \in Report /\ (report'.joined \/ report'.fetch = "asked")
  BY <1>1, <1>2 DEF Report
<1>4. evals' \in [open : BOOLEAN, pending : Calls \cup {NoCall}] /\ evals'.pending = evals.pending
  BY <1>1, <1>2
<1>5. ReportOK' /\ PendingOK'
  BY <1>1, <1>2, <1>3, <1>4 DEF ReportOK, PendingOK
<1> QED BY <1>1, <1>3, <1>4, <1>5, OthersStay

\* A finished run has all its results when the report is read.
LEMMA ReadReportKeeps == FollowInv /\ ReadReport => FollowInv'
<1> SUFFICES ASSUME FollowInv, ReadReport PROVE FollowInv'
  OBVIOUS
<1>1. report' = [report EXCEPT !.fetch = "read", !.read = stored] /\ UNCHANGED <<vars, call, entry, evals>>
  BY DEF ReadReport
<1>2. report \in Report /\ stored \in [Runs -> Nat]
  BY DEF FollowInv, ClientTypes
<1>3. report' \in Report /\ report'.fetch = "read" /\ report'.read = stored
  BY <1>1, <1>2 DEF Report
<1>4. entry.status = "done" => stored[entry.run] = entry.completed
  BY DEF FollowInv, EntryOK, TrueEnd
<1>5. ReportOK' /\ PendingOK'
  BY <1>1, <1>3, <1>4 DEF ReportOK, PendingOK, FollowInv, vars
<1> QED BY <1>1, <1>3, <1>5, OthersStay DEF FollowInv, ClientTypes

LEMMA ReportArrivesKeeps == FollowInv /\ ReportArrives => FollowInv'
<1> SUFFICES ASSUME FollowInv, ReportArrives PROVE FollowInv'
  OBVIOUS
<1>1. /\ report.fetch = "read" /\ UNCHANGED <<vars, call, entry, evals>>
      /\ report' = [report EXCEPT !.count = report.read, !.fetch = "idle", !.read = NoCount,
                                  !.empty = FALSE]
  BY DEF ReportArrives
<1>2. report \in Report /\ NoCount \in [Runs -> Nat]
  BY DEF FollowInv, ClientTypes, NoCount
<1>3. /\ report' \in Report /\ report'.fetch = "idle" /\ report'.count = report.read
      /\ report'.joined = report.joined
  BY <1>1, <1>2 DEF Report
<1>4. ReportOK' /\ PendingOK'
  BY <1>1, <1>3 DEF ReportOK, PendingOK, FollowInv, vars
<1> QED BY <1>1, <1>3, <1>4, OthersStay DEF FollowInv, ClientTypes

LEMMA ReportFailsKeeps == FollowInv /\ ReportFails => FollowInv'
<1> SUFFICES ASSUME FollowInv, ReportFails PROVE FollowInv'
  OBVIOUS
<1>1. /\ report' = [report EXCEPT !.fetch = "failed", !.read = NoCount, !.joined = FALSE]
      /\ UNCHANGED <<vars, call, entry, evals>>
  BY DEF ReportFails
<1>2. report \in Report /\ NoCount \in [Runs -> Nat]
  BY DEF FollowInv, ClientTypes, NoCount
<1>3. report' \in Report /\ report'.fetch = "failed"
  BY <1>1, <1>2 DEF Report
<1>4. ReportOK' /\ PendingOK'
  BY <1>1, <1>3 DEF ReportOK, PendingOK, FollowInv
<1> QED BY <1>1, <1>3, <1>4, OthersStay DEF FollowInv, ClientTypes

\* The mutation that waits for call k, when that goes on, waits no longer.
LEMMA PendingResolved ==
  ASSUME FollowInv, NEW k \in Calls, ResolvePending(k),
         \A j \in Calls : j # k => call'[j] = call[j]
  PROVE  /\ evals' \in [open : BOOLEAN, pending : Calls \cup {NoCall}] /\ evals'.open = evals.open
         /\ PendingOK'
BY DEF FollowInv, ClientTypes, ResolvePending, PendingOK

\* The last event ends the loop, and any other leaves it reading.
LEMMA FirstEventKeeps ==
  ASSUME NEW k \in Calls, FollowInv, FirstEvent(k)
  PROVE  FollowInv'
<1> DEFINE e == Head(call[k].wire)
           at == IF e.kind = "progress" THEN "consuming" ELSE "refreshing"
           w == IF e.kind = "progress" THEN Tail(call[k].wire) ELSE <<>>
<1>1. /\ call[k].at = "first" /\ call[k].wire # <<>> /\ ApplyEvent(k, e) /\ UNCHANGED vars
      /\ call' = Moved(k, at, w, call[k].stream)
      /\ call[k].stream \in {"open", "ended", "broken"}
      /\ IF e.kind = "progress" THEN ResolvePending(k) ELSE evals' = evals
  BY DEF FirstEvent, FollowInv, ClientTypes, Call, Moved
<1>2. e \in Event /\ EventOK(k, e)
  BY <1>1, FirstEventIs
<1>3. /\ at \in {"unmade", "first", "consuming", "refreshing", "over"}
      /\ w = <<>> \/ (w = Tail(call[k].wire) /\ call[k].wire # <<>>)
      /\ (e.kind = "progress" => at = "consuming") /\ (e.kind # "progress" => at = "refreshing")
  BY <1>1
<1> HIDE DEF e, at, w
<1>4. /\ call' \in [Calls -> Call] /\ call'[k].at = at
      /\ SameRuns /\ \A j \in Calls : j # k => call'[j] = call[j]
      /\ (\A j \in Calls : WireOK(j)') /\ (\A r \in Runs : Counted(r)')
      /\ UNCHANGED <<status, total, stored>>
  BY <1>1, <1>3, LoopMoves
<1>5. /\ evals' \in [open : BOOLEAN, pending : Calls \cup {NoCall}] /\ evals'.open = evals.open
      /\ PendingOK'
  <2>1. CASE e.kind = "progress"
    BY <1>1, <1>4, <2>1, PendingResolved
  <2>2. CASE e.kind # "progress"
    BY <1>1, <1>3, <1>4, <2>2 DEF FollowInv, ClientTypes, PendingOK
  <2> QED BY <2>1, <2>2
<1>6. entry' \in Entry /\ report' \in Report /\ EntryOK' /\ ReportOK'
  BY <1>1, <1>2, <1>3, <1>4, <1>5, ApplyEventKeeps
<1> QED BY <1>4, <1>5, <1>6 DEF FollowInv, ClientTypes

LEMMA ConsumeEventKeeps ==
  ASSUME NEW k \in Calls, FollowInv, ConsumeEvent(k)
  PROVE  FollowInv'
<1> DEFINE e == Head(call[k].wire)
           at == IF e.kind = "progress" THEN "consuming" ELSE "over"
           w == IF e.kind = "progress" THEN Tail(call[k].wire) ELSE <<>>
           stream == IF e.kind = "progress" THEN call[k].stream ELSE "ended"
<1>1. /\ call[k].at = "consuming" /\ call[k].wire # <<>> /\ ApplyEvent(k, e)
      /\ UNCHANGED vars /\ evals' = evals
      /\ call' = IF e.kind = "progress" THEN [call EXCEPT ![k].wire = Tail(@)]
                 ELSE [call EXCEPT ![k].at = "over", ![k].wire = <<>>, ![k].stream = "ended"]
  BY DEF ConsumeEvent, CallOver
<1>2. /\ call' = Moved(k, at, w, stream)
      /\ UNCHANGED vars /\ stream \in {"open", "ended", "broken"}
  BY <1>1 DEF FollowInv, ClientTypes, Call, Moved
<1>3. e \in Event /\ EventOK(k, e)
  BY <1>1, FirstEventIs
<1>4. /\ at \in {"unmade", "first", "consuming", "refreshing", "over"}
      /\ w = <<>> \/ (w = Tail(call[k].wire) /\ call[k].wire # <<>>)
      /\ (e.kind = "progress" => at = "consuming")
  BY <1>1
<1> HIDE DEF e, at, w, stream
<1>5. /\ call' \in [Calls -> Call] /\ call'[k].at = at
      /\ SameRuns /\ \A j \in Calls : j # k => call'[j] = call[j]
      /\ (\A j \in Calls : WireOK(j)') /\ (\A r \in Runs : Counted(r)')
      /\ UNCHANGED <<status, total, stored>>
  BY <1>2, <1>4, LoopMoves
<1>6. evals.pending # NoCall => call'[evals.pending] = call[evals.pending]
  BY <1>1, <1>5 DEF FollowInv, ClientTypes, PendingOK
<1>7. entry' \in Entry /\ report' \in Report /\ EntryOK' /\ ReportOK'
  BY <1>1, <1>3, <1>4, <1>5, ApplyEventKeeps
<1> QED BY <1>1, <1>5, <1>6, <1>7 DEF FollowInv, ClientTypes, PendingOK

\* A loop that is over, when it was not reading, leaves the entry.
LEMMA CallIsOver ==
  ASSUME FollowInv, NEW k \in Calls, call' = CallOver(k), UNCHANGED vars
  PROVE  /\ call' \in [Calls -> Call] /\ call'[k].at = "over"
         /\ SameRuns /\ \A j \in Calls : j # k => call'[j] = call[j]
         /\ (\A j \in Calls : WireOK(j)') /\ (\A r \in Runs : Counted(r)')
         /\ UNCHANGED <<status, total, stored>>
<1>1. call' = Moved(k, "over", <<>>, "ended")
  BY DEF CallOver, Moved
<1> QED BY <1>1, LoopMoves

LEMMA FirstDoneKeeps ==
  ASSUME NEW k \in Calls, FollowInv, FirstDone(k)
  PROVE  FollowInv'
<1>1. /\ call[k].at = "refreshing" /\ call' = CallOver(k) /\ ResolvePending(k)
      /\ UNCHANGED <<vars, entry, report>>
  BY DEF FirstDone
<1>2. /\ call' \in [Calls -> Call] /\ call'[k].at = "over"
      /\ SameRuns /\ \A j \in Calls : j # k => call'[j] = call[j]
      /\ (\A j \in Calls : WireOK(j)') /\ (\A r \in Runs : Counted(r)')
      /\ UNCHANGED <<status, total, stored>>
  BY <1>1, CallIsOver
<1>3. /\ evals' \in [open : BOOLEAN, pending : Calls \cup {NoCall}] /\ evals'.open = evals.open
      /\ PendingOK'
  BY <1>1, <1>2, PendingResolved
<1>4. entry.status = "streaming" => entry.request \in Calls \ {k}
  BY <1>1 DEF FollowInv, EntryOK
<1>5. EntryOK' /\ ReportOK'
  BY <1>1, <1>2, <1>3, <1>4, EntryStays, ReportStays
<1> QED BY <1>1, <1>2, <1>3, <1>5 DEF FollowInv, ClientTypes

LEMMA NoFirstEventKeeps ==
  ASSUME NEW k \in Calls, FollowInv, NoFirstEvent(k)
  PROVE  FollowInv'
<1> DEFINE lost == [request |-> k, run |-> NoRun, completed |-> 0, status |-> "error"]
<1>1. /\ call[k].at = "first" /\ entry' \in {entry, lost} /\ call' = CallOver(k) /\ ResolvePending(k)
      /\ UNCHANGED <<vars, report>>
  BY DEF NoFirstEvent
<1>2. /\ call' \in [Calls -> Call] /\ call'[k].at = "over"
      /\ SameRuns /\ \A j \in Calls : j # k => call'[j] = call[j]
      /\ (\A j \in Calls : WireOK(j)') /\ (\A r \in Runs : Counted(r)')
      /\ UNCHANGED <<status, total, stored>>
  BY <1>1, CallIsOver
<1>3. /\ evals' \in [open : BOOLEAN, pending : Calls \cup {NoCall}] /\ evals'.open = evals.open
      /\ PendingOK'
  BY <1>1, <1>2, PendingResolved
<1>4. lost \in Entry /\ lost.run = NoRun /\ lost.status = "error"
  BY DEF Entry
<1>5. EntryOK' /\ entry' \in Entry
  <2>1. entry.status = "streaming" => entry.request \in Calls \ {k}
    BY <1>1 DEF FollowInv, EntryOK
  <2>2. CASE entry' = entry
    BY <1>1, <1>2, <2>1, <2>2, EntryStays DEF FollowInv, ClientTypes
  <2>3. CASE entry' = lost
    BY <1>4, <2>3 DEF EntryOK
  <2> QED BY <1>1, <2>2, <2>3
<1>6. ReportOK'
  <2>1. entry'.status = "done" => entry' = entry
    BY <1>1, <1>4
  <2> QED BY <1>1, <1>3, <2>1, ReportStays
<1> QED BY <1>1, <1>2, <1>3, <1>5, <1>6 DEF FollowInv, ClientTypes

LEMMA StreamLostKeeps ==
  ASSUME NEW k \in Calls, FollowInv, StreamLost(k)
  PROVE  FollowInv'
<1>1. /\ call[k].at = "consuming" /\ entry' = [entry EXCEPT !.status = "error"]
      /\ call' = CallOver(k) /\ UNCHANGED <<vars, evals, report>>
  BY DEF StreamLost
<1>2. /\ call' \in [Calls -> Call]
      /\ SameRuns /\ \A j \in Calls : j # k => call'[j] = call[j]
      /\ (\A j \in Calls : WireOK(j)') /\ (\A r \in Runs : Counted(r)')
      /\ UNCHANGED <<status, total, stored>>
  BY <1>1, CallIsOver
<1>3. /\ entry' \in Entry /\ entry'.run = entry.run /\ entry'.request = entry.request
      /\ entry'.completed = entry.completed /\ entry'.status = "error"
  BY <1>1 DEF FollowInv, ClientTypes, Entry
<1>4. EntryOK' /\ ReportOK'
  BY <1>2, <1>3 DEF EntryOK, ReportOK, FollowInv, SameRuns
<1>5. evals.pending # NoCall => call'[evals.pending] = call[evals.pending]
  BY <1>1, <1>2 DEF FollowInv, ClientTypes, PendingOK
<1> QED BY <1>1, <1>2, <1>3, <1>4, <1>5 DEF FollowInv, ClientTypes, PendingOK


-----------------------------------------------------------------------------
(***************************************************************************)
(* Following a run: the server's steps.                                    *)
(***************************************************************************)

\* The run is over, and its results stay what they are.
Over(r) == status[r] \in {"completed", "failed"}

\* The server's part of a call changes, and its loop stays where it is.
LEMMA ServerMoves ==
  ASSUME FollowInv, NEW k \in Calls, call' \in [Calls -> Call], call'[k].at = call[k].at,
         call'[k].run = call[k].run \/ call[k].run = NoRun,
         call[k].wordless => call'[k].wordless,
         \A j \in Calls \ {k} : call'[j] = call[j], UNCHANGED <<entry, evals, report>>,
         \A r \in Runs : stored[r] <= stored'[r] /\ stored'[r] \in Nat,
         \A r \in Runs : Over(r) => status'[r] = status[r] /\ stored'[r] = stored[r]
  PROVE  EntryOK' /\ PendingOK' /\ ReportOK' /\ \A j \in Calls \ {k} : WireOK(j)'
<1>1. /\ entry.run \in Runs \cup {NoRun} /\ entry.completed \in Nat
      /\ \A r \in Runs : stored[r] \in Nat
  BY DEF FollowInv, ClientTypes, Entry
<1>2. entry.run # NoRun => call'[entry.request].run = call[entry.request].run
  BY DEF FollowInv, EntryOK
<1>3. \A j \in Calls : call'[j].at = call[j].at /\ (call[j].wordless => call'[j].wordless)
  OBVIOUS
<1>4. EntryOK'
  <2>1. entry.run # NoRun => entry.completed <= stored'[entry.run]
    <3> DEFINE a == entry.completed
               b == stored[entry.run]
               c == stored'[entry.run]
    <3> SUFFICES ASSUME entry.run # NoRun PROVE a <= c
      OBVIOUS
    <3>1. a \in Nat /\ b \in Nat /\ c \in Nat /\ a <= b /\ b <= c
      BY <1>1 DEF FollowInv, EntryOK
    <3> HIDE DEF a, b, c
    <3> QED BY <3>1
  <2>2. entry.status = "done" => entry.run # NoRun /\ TrueEnd(entry.request, entry.completed)'
    BY <1>1, <1>2, <1>3 DEF FollowInv, EntryOK, TrueEnd, Over
  <2> QED BY <1>1, <1>2, <1>3, <2>1, <2>2 DEF FollowInv, EntryOK
<1>5. PendingOK'
  BY <1>3 DEF FollowInv, ClientTypes, PendingOK
<1>6. ReportOK'
  BY <1>1 DEF FollowInv, EntryOK, ReportOK
<1>7. ASSUME NEW j \in Calls \ {k}, NEW e \in Event, EventOK(j, e) PROVE EventOK(j, e)'
  <2> DEFINE r == call[j].run
  <2>1. e.completed \in Nat /\ stored[r] \in Nat /\ stored'[r] \in Nat
        /\ e.completed <= stored[r] /\ stored[r] <= stored'[r]
    BY <1>1, <1>7 DEF EventOK, Event
  <2>2. e.completed <= stored'[r]
    BY <2>1
  <2> QED BY <1>7, <2>2 DEF EventOK, TrueEnd, Over
<1>8. ASSUME NEW j \in Calls \ {k} PROVE WireOK(j)'
  <2>1. call[j].wire \in Seq(Event) /\ WireOK(j)
    BY DEF FollowInv, ClientTypes, Call
  <2>2. \A n \in 1 .. Len(call[j].wire) : call[j].wire[n] \in Event
    BY <2>1
  <2> QED BY <1>7, <2>1, <2>2 DEF WireOK
<1> QED BY <1>4, <1>5, <1>6, <1>8

\* A call's own stream, when its run has only gone on.
LEMMA OwnWireStays ==
  ASSUME FollowInv, NEW k \in Calls, call'[k].wire = call[k].wire, call'[k].run = call[k].run,
         call[k].wordless => call'[k].wordless,
         \A r \in Runs : stored[r] <= stored'[r] /\ stored'[r] \in Nat,
         \A r \in Runs : Over(r) => status'[r] = status[r] /\ stored'[r] = stored[r]
  PROVE  WireOK(k)'
<1>1. call[k].wire \in Seq(Event) /\ WireOK(k) /\ \A r \in Runs : stored[r] \in Nat
  BY DEF FollowInv, ClientTypes, Call
<1>2. \A n \in 1 .. Len(call[k].wire) :
        call[k].wire[n] \in Event /\ EventOK(k, call[k].wire[n])
  BY <1>1 DEF WireOK
<1>3. ASSUME NEW n \in 1 .. Len(call[k].wire) PROVE EventOK(k, call[k].wire[n])'
  <2> DEFINE e == call[k].wire[n]
             r == call[k].run
  <2>1. e.completed \in Nat /\ stored[r] \in Nat /\ stored'[r] \in Nat
        /\ e.completed <= stored[r] /\ stored[r] <= stored'[r]
    BY <1>1, <1>2 DEF EventOK, Event
  <2>2. e.completed <= stored'[r]
    BY <2>1
  <2>3. EventOK(k, e)
    BY <1>2
  <2> QED BY <2>2, <2>3 DEF EventOK, TrueEnd, Over
<1> QED BY <1>1, <1>3 DEF WireOK

\* An event is sent, of what the run is then; w says whether its run failed without a word.
LEMMA EmittedOK ==
  ASSUME FollowInv, NEW k \in Calls, call[k].run \in Runs, Len(call[k].wire) < MaxEvents,
         NEW kind \in {"progress", "done", "error"},
         NEW wordless \in BOOLEAN, call[k].wordless => wordless,
         kind = "done" => \/ status'[call[k].run] = "completed"
                          \/ status'[call[k].run] = "failed" /\ wordless,
         UNCHANGED <<total, stored>>, \A r \in Runs : Over(r) => status'[r] = status[r],
         NEW n \in Nat,
         call' = [Emitted(k, kind) EXCEPT ![k].announced = n, ![k].wordless = wordless]
  PROVE  /\ call' \in [Calls -> Call] /\ call'[k].at = call[k].at /\ call'[k].run = call[k].run
         /\ call'[k].wordless = wordless
         /\ \A j \in Calls \ {k} : call'[j] = call[j]
         /\ WireOK(k)'
<1>1. /\ call \in [Calls -> Call] /\ call[k] \in Call /\ call[k].wire \in Seq(Event)
      /\ stored[call[k].run] \in Nat /\ WireOK(k) /\ MaxEvents \in Nat
  BY ClientAssumption DEF FollowInv, ClientTypes, Call
<1>2. PICK r \in Runs : r = call[k].run
  OBVIOUS
<1>3. PICK w \in Seq(Event) : w = call[k].wire
  BY <1>1
<1>4. PICK e \in Event : e = [kind |-> kind, completed |-> stored[r]]
  BY <1>1, <1>2 DEF Event
<1>5. PICK sent : sent = IF call[k].stream = "open" THEN Append(w, e) ELSE w
  OBVIOUS
<1>6. call' = [call EXCEPT ![k] = [call[k] EXCEPT !.wire = sent, !.announced = n,
                                                !.wordless = wordless]]
  BY <1>1, <1>2, <1>3, <1>4, <1>5 DEF Emitted, Call
<1>7. e.kind = kind /\ e.completed = stored[r] /\ stored[r] \in Nat
  BY <1>1, <1>2, <1>4
<1>8. call'[k].run = r /\ call'[k].wordless = wordless
  BY <1>1, <1>2, <1>6 DEF Call
<1>9. /\ sent \in Seq(Event) /\ Len(sent) \in Nat /\ Len(sent) <= MaxEvents
      /\ \A m \in 1 .. Len(sent) : sent[m] = e \/ (m \in 1 .. Len(w) /\ sent[m] = w[m])
  <2>1. Len(w) \in Nat /\ Len(w) < MaxEvents /\ MaxEvents \in Nat
    BY <1>1, <1>3
  <2>2. CASE sent = w
    BY <2>1, <2>2
  <2>3. CASE sent = Append(w, e)
    <3>1. Len(sent) = Len(w) + 1 /\ sent \in Seq(Event)
          /\ \A m \in 1 .. Len(sent) : sent[m] = IF m = Len(w) + 1 THEN e ELSE w[m]
      BY <2>3
    <3> QED BY <2>1, <3>1
  <2> QED BY <1>5, <2>2, <2>3
<1>10. \A m \in 1 .. Len(w) : EventOK(k, w[m])
  BY <1>1, <1>2, <1>3 DEF WireOK
<1>11. ASSUME NEW d, EventOK(k, d) PROVE EventOK(k, d)'
  BY <1>2, <1>8, <1>11 DEF EventOK, TrueEnd, Over
<1>12. EventOK(k, e)'
  BY <1>2, <1>7, <1>8 DEF EventOK, TrueEnd
<1>13. /\ call' \in [Calls -> Call] /\ call'[k].at = call[k].at /\ call'[k].run = r
       /\ call'[k].wire = sent /\ call'[k].wordless = wordless
       /\ \A j \in Calls \ {k} : call'[j] = call[j]
  <2> DEFINE next == [call[k] EXCEPT !.wire = sent, !.announced = n, !.wordless = wordless]
  <2>1. next \in Call /\ next.at = call[k].at /\ next.run = r /\ next.wire = sent
        /\ next.wordless = wordless
    BY <1>1, <1>2, <1>9 DEF Call
  <2> HIDE DEF next
  <2> QED BY <1>1, <1>6, <2>1 DEF next
<1>14. WireOK(k)'
  <2>1. \A m \in 1 .. Len(sent) : EventOK(k, sent[m])'
    BY <1>12, <1>9, <1>10, <1>11
  <2> QED BY <1>9, <1>13, <2>1 DEF WireOK
<1> QED BY <1>2, <1>13, <1>14


LEMMA ServerBeginsKeeps ==
  ASSUME NEW k \in Calls, FollowInv, ServerBegins(k)
  PROVE  FollowInv'
<1>1. PICK r \in Runs : Begin(r) /\ call' = [call EXCEPT ![k].run = r]
  BY DEF ServerBegins
<1>2. call[k].run = NoRun /\ UNCHANGED <<entry, evals, report>>
  BY DEF ServerBegins
<1>3. PICK n \in 0 .. MaxTotal : total' = [total EXCEPT ![r] = n]
  BY <1>1 DEF Begin
<1>4. /\ status[r] = "absent" /\ status' = [status EXCEPT ![r] = "running"] /\ stored' = stored
      /\ n \in Nat
  BY <1>1, <1>3 DEF Begin
<1>5. /\ status \in [Runs -> {"absent", "running", "completed", "failed"}]
      /\ total \in [Runs -> Nat] /\ stored \in [Runs -> Nat]
      /\ call \in [Calls -> Call] /\ call[k] \in Call
  BY DEF FollowInv, ClientTypes
<1>6. /\ status' \in [Runs -> {"absent", "running", "completed", "failed"}]
      /\ total' \in [Runs -> Nat] /\ stored' \in [Runs -> Nat]
      /\ \A q \in Runs \ {r} : status'[q] = status[q] /\ total'[q] = total[q]
      /\ status'[r] = "running"
  BY <1>3, <1>4, <1>5
<1>7. stored[r] = 0
  BY <1>4 DEF FollowInv, Counted
<1>8. \A q \in Runs : Counted(q)'
  <2>1. Counted(r)'
    BY <1>3, <1>4, <1>5, <1>6, <1>7 DEF Counted
  <2>2. \A q \in Runs \ {r} : Counted(q)'
    BY <1>4, <1>6 DEF FollowInv, Counted
  <2> QED BY <2>1, <2>2
<1>9. /\ call' \in [Calls -> Call] /\ call'[k].at = call[k].at /\ call'[k].wire = call[k].wire
      /\ call'[k].wordless = call[k].wordless
      /\ \A j \in Calls \ {k} : call'[j] = call[j]
  BY <1>1, <1>5 DEF Call
<1>10. /\ \A q \in Runs : stored[q] <= stored'[q] /\ stored'[q] \in Nat
       /\ \A q \in Runs : Over(q) => status'[q] = status[q] /\ stored'[q] = stored[q]
  BY <1>4, <1>5, <1>6 DEF Over
<1>11. EntryOK' /\ PendingOK' /\ ReportOK' /\ \A j \in Calls \ {k} : WireOK(j)'
  BY <1>2, <1>9, <1>10, ServerMoves
<1>12. WireOK(k)'
  BY <1>2, <1>5, <1>9, NumbersAre DEF FollowInv, WireOK, EventOK, Call
<1> QED BY <1>2, <1>6, <1>8, <1>9, <1>11, <1>12 DEF FollowInv, ClientTypes

LEMMA ServerAnnouncesKeeps ==
  ASSUME NEW k \in Calls, FollowInv, ServerAnnounces(k)
  PROVE  FollowInv'
<1> DEFINE n == call[k].announced + 1
<1>1. /\ call[k].run \in Runs /\ Len(call[k].wire) < MaxEvents
      /\ UNCHANGED <<vars, entry, evals, report>>
  BY DEF ServerAnnounces, Driving, FollowInv, ClientTypes, Call
<1>2. n \in Nat /\ call \in [Calls -> Call] /\ \A r \in Runs : stored[r] \in Nat
  BY DEF FollowInv, ClientTypes, Call
<1>3. /\ call' = [Emitted(k, "progress") EXCEPT ![k].announced = n,
                                               ![k].wordless = call[k].wordless]
      /\ call[k].wordless \in BOOLEAN
  BY <1>2 DEF ServerAnnounces, Emitted, Call
<1> HIDE DEF n
<1>4. UNCHANGED <<status, total, stored>>
  BY <1>1 DEF vars
<1>5. /\ call' \in [Calls -> Call] /\ call'[k].at = call[k].at /\ call'[k].run = call[k].run
      /\ call'[k].wordless = call[k].wordless
      /\ (\A j \in Calls \ {k} : call'[j] = call[j]) /\ WireOK(k)'
  BY <1>1, <1>2, <1>3, <1>4, EmittedOK
<1>6. EntryOK' /\ PendingOK' /\ ReportOK' /\ \A j \in Calls \ {k} : WireOK(j)'
  BY <1>1, <1>2, <1>4, <1>5, ServerMoves
<1> QED BY <1>1, <1>4, <1>5, <1>6 DEF FollowInv, ClientTypes, Counted

LEMMA ServerStoresKeeps ==
  ASSUME NEW k \in Calls, FollowInv, ServerStores(k)
  PROVE  FollowInv'
<1>1. PICK r \in Runs : r = call[k].run
  BY DEF ServerStores, Driving, FollowInv, ClientTypes, Call
<1>2. /\ status[r] = "running" /\ stored[r] < total[r] /\ stored' = [stored EXCEPT ![r] = stored[r] + 1]
      /\ UNCHANGED <<status, total, call, entry, evals, report>>
  BY <1>1 DEF ServerStores, Store
<1>3. stored \in [Runs -> Nat] /\ total \in [Runs -> Nat] /\ call \in [Calls -> Call]
  BY DEF FollowInv, ClientTypes
<1>4. /\ stored' \in [Runs -> Nat] /\ stored'[r] = stored[r] + 1
      /\ \A q \in Runs \ {r} : stored'[q] = stored[q]
  BY <1>2, <1>3
<1>5. /\ \A q \in Runs : stored[q] <= stored'[q] /\ stored'[q] \in Nat
      /\ \A q \in Runs : Over(q) => status'[q] = status[q] /\ stored'[q] = stored[q]
  BY <1>2, <1>3, <1>4 DEF Over
<1>6. \A q \in Runs : Counted(q)'
  <2>1. Counted(r)'
    BY <1>2, <1>3, <1>4 DEF Counted
  <2>2. \A q \in Runs \ {r} : Counted(q)'
    BY <1>2, <1>4 DEF FollowInv, Counted
  <2> QED BY <2>1, <2>2
<1>7. EntryOK' /\ PendingOK' /\ ReportOK' /\ \A j \in Calls \ {k} : WireOK(j)'
  BY <1>2, <1>3, <1>5, ServerMoves
<1>8. WireOK(k)'
  BY <1>2, <1>5, OwnWireStays
<1> QED BY <1>2, <1>4, <1>6, <1>7, <1>8 DEF FollowInv, ClientTypes

\* A run that completes has all its results, and the last event of one that has not
\* says so, or the run failed without a word.
LEMMA ServerEndsRunKeeps ==
  ASSUME NEW k \in Calls, FollowInv, ServerEndsRun(k)
  PROVE  FollowInv'
<1>0. call[k].wordless \in BOOLEAN /\ call \in [Calls -> Call]
  BY DEF FollowInv, ClientTypes, Call
<1>1. PICK r \in Runs : r = call[k].run
  BY DEF ServerEndsRun, Driving, FollowInv, ClientTypes, Call
<1>2. PICK kind \in {"done", "error"}, s \in {"completed", "failed"}, wordless \in BOOLEAN :
        /\ End(r, s) /\ call' = [Emitted(k, kind) EXCEPT ![k].wordless = wordless]
        /\ call[k].wordless => wordless
        /\ kind = "done" => s = "completed" \/ (s = "failed" /\ wordless)
  <2>1. \A kind \in {"done", "error"} :
          Emitted(k, kind) = [Emitted(k, kind) EXCEPT ![k].wordless = call[k].wordless]
    BY <1>0 DEF Emitted, Call
  <2>2. CASE End(r, "completed") /\ call' = Emitted(k, "done")
    BY <1>0, <2>1, <2>2
  <2>3. CASE End(r, "failed") /\ call' = Emitted(k, "error")
    BY <1>0, <2>1, <2>3
  <2>4. CASE End(r, "failed") /\ call' = [Emitted(k, "done") EXCEPT ![k].wordless = TRUE]
    BY <2>4
  <2> QED BY <1>1, <2>2, <2>3, <2>4 DEF ServerEndsRun
<1>3. /\ status[r] = "running" /\ status' = [status EXCEPT ![r] = s]
      /\ s = "completed" => stored[r] = total[r]
      /\ UNCHANGED <<total, stored, entry, evals, report>> /\ Len(call[k].wire) < MaxEvents
  BY <1>2 DEF End, ServerEndsRun
<1>4. /\ status \in [Runs -> {"absent", "running", "completed", "failed"}]
      /\ stored \in [Runs -> Nat] /\ call \in [Calls -> Call] /\ call[k].announced \in Nat
  BY DEF FollowInv, ClientTypes, Call
<1>5. /\ status' \in [Runs -> {"absent", "running", "completed", "failed"}]
      /\ status'[r] = s /\ \A q \in Runs \ {r} : status'[q] = status[q]
  BY <1>3, <1>4
<1>6. call' = [Emitted(k, kind) EXCEPT ![k].announced = call[k].announced,
                                       ![k].wordless = wordless]
  BY <1>2, <1>4 DEF Emitted, Call
<1>7. \A q \in Runs : Over(q) => status'[q] = status[q]
  BY <1>3, <1>5 DEF Over
<1>8. /\ call' \in [Calls -> Call] /\ call'[k].at = call[k].at /\ call'[k].run = call[k].run
      /\ call'[k].wordless = wordless
      /\ (\A j \in Calls \ {k} : call'[j] = call[j]) /\ WireOK(k)'
  <2>1. call[k].run \in Runs
    BY <1>1
  <2>2. kind = "done" => \/ status'[call[k].run] = "completed"
                         \/ status'[call[k].run] = "failed" /\ wordless
    BY <1>1, <1>2, <1>5
  <2>3. kind \in {"progress", "done", "error"}
    OBVIOUS
  <2>4. call[k].wordless => wordless
    BY <1>2
  <2> HIDE DEF Emitted
  <2> QED BY <1>3, <1>4, <1>6, <1>7, <2>1, <2>2, <2>3, <2>4, EmittedOK
<1>9. EntryOK' /\ PendingOK' /\ ReportOK' /\ \A j \in Calls \ {k} : WireOK(j)'
  BY <1>2, <1>3, <1>4, <1>7, <1>8, ServerMoves
<1>10. \A q \in Runs : Counted(q)'
  BY <1>2, <1>3, <1>5 DEF FollowInv, Counted
<1> QED BY <1>3, <1>5, <1>8, <1>9, <1>10 DEF FollowInv, ClientTypes

LEMMA StreamClosesKeeps ==
  ASSUME NEW k \in Calls, FollowInv, StreamCloses(k)
  PROVE  FollowInv'
<1>1. PICK how \in {"ended", "broken"} : call' = [call EXCEPT ![k].stream = how]
  BY DEF StreamCloses
<1>2. UNCHANGED <<status, total, stored, entry, evals, report>>
  BY DEF StreamCloses, vars
<1>3. call \in [Calls -> Call] /\ \A r \in Runs : stored[r] \in Nat
  BY DEF FollowInv, ClientTypes
<1>4. /\ call' \in [Calls -> Call] /\ call'[k].at = call[k].at /\ call'[k].run = call[k].run
      /\ call'[k].wire = call[k].wire
      /\ call'[k].wordless = call[k].wordless /\ \A j \in Calls \ {k} : call'[j] = call[j]
  BY <1>1, <1>3 DEF Call
<1>5. EntryOK' /\ PendingOK' /\ ReportOK' /\ \A j \in Calls \ {k} : WireOK(j)'
  BY <1>2, <1>3, <1>4, ServerMoves
<1>6. WireOK(k)'
  BY <1>2, <1>3, <1>4, OwnWireStays
<1> QED BY <1>2, <1>4, <1>5, <1>6 DEF FollowInv, ClientTypes, Counted

-----------------------------------------------------------------------------
(***************************************************************************)
(* Following a run: the theorems.                                          *)
(***************************************************************************)

LEMMA FollowInit == ClientInit => FollowInv
<1> SUFFICES ASSUME ClientInit PROVE FollowInv
  OBVIOUS
<1> DEFINE unmade == [at |-> "unmade", run |-> NoRun, wire |-> <<>>, stream |-> "open",
                     announced |-> 0, wordless |-> FALSE]
<1>1. unmade \in Call /\ unmade.wire = <<>>
  BY DEF Call
<1> HIDE DEF unmade
<1>2. call = [k \in Calls |-> unmade]
  BY DEF ClientInit, unmade
<1>3. \A k \in Calls : WireOK(k)
  BY <1>1, <1>2, ClientAssumption DEF WireOK
<1>4. NoCount \in [Runs -> Nat]
  BY DEF NoCount
<1>5. ClientTypes /\ \A r \in Runs : Counted(r)
  <2>1. call \in [Calls -> Call]
    BY <1>1, <1>2
  <2>2. entry \in Entry /\ report \in Report
    BY <1>4 DEF ClientInit, Entry, Report
  <2>3. /\ status = [r \in Runs |-> "absent"] /\ total = [r \in Runs |-> 0]
        /\ stored = [r \in Runs |-> 0] /\ evals = [open |-> TRUE, pending |-> NoCall]
    BY DEF ClientInit, Init
  <2>4. /\ status \in [Runs -> {"absent", "running", "completed", "failed"}]
        /\ total \in [Runs -> Nat] /\ stored \in [Runs -> Nat]
        /\ evals \in [open : BOOLEAN, pending : Calls \cup {NoCall}]
        /\ \A r \in Runs : status[r] = "absent" /\ total[r] = 0 /\ stored[r] = 0
    BY <2>3
  <2> QED BY <2>1, <2>2, <2>4 DEF ClientTypes, Counted
<1>6. EntryOK /\ PendingOK /\ ReportOK
  BY DEF ClientInit, EntryOK, PendingOK, ReportOK
<1> QED BY <1>3, <1>5, <1>6 DEF FollowInv

LEMMA FollowStep == FollowInv /\ [ClientNext]_clientVars => FollowInv'
<1> SUFFICES ASSUME FollowInv, [ClientNext]_clientVars PROVE FollowInv'
  OBVIOUS
<1>1. CASE LeaveEvals \/ OpenEvals \/ ReadReport \/ ReportArrives \/ ReportFails
  BY <1>1, LeaveEvalsKeeps, OpenEvalsKeeps, ReadReportKeeps, ReportArrivesKeeps, ReportFailsKeeps
<1>2. ASSUME NEW k \in Calls, HandleSubmit(k) \/ FirstEvent(k) \/ FirstDone(k) \/ NoFirstEvent(k)
      PROVE  FollowInv'
  BY <1>2, HandleSubmitKeeps, FirstEventKeeps, FirstDoneKeeps, NoFirstEventKeeps
<1>3. ASSUME NEW k \in Calls, ConsumeEvent(k) \/ StreamLost(k)
      PROVE  FollowInv'
  BY <1>3, ConsumeEventKeeps, StreamLostKeeps
<1>4. ASSUME NEW k \in Calls,
             \/ ServerBegins(k) \/ ServerAnnounces(k) \/ ServerStores(k) \/ ServerEndsRun(k)
             \/ StreamCloses(k)
      PROVE  FollowInv'
  BY <1>4, ServerBeginsKeeps, ServerAnnouncesKeeps, ServerStoresKeeps, ServerEndsRunKeeps,
     StreamClosesKeeps
<1>5. CASE UNCHANGED clientVars
  BY <1>5 DEF clientVars, vars, FollowInv, ClientTypes, Counted, WireOK, EventOK, TrueEnd, EntryOK,
              PendingOK, ReportOK
<1> QED BY <1>1, <1>2, <1>3, <1>4, <1>5 DEF ClientNext

\* What the loops of the calls, the cache entry, the page and the report are to the runs they
\* follow, in every state (activeRun, evals/queries, EvalsPage).
THEOREM FollowSafe == ClientSpec => []FollowInv
<1>1. ClientInit => FollowInv
  BY FollowInit
<1>2. FollowInv /\ [ClientNext]_clientVars => FollowInv'
  BY FollowStep
<1> QED BY <1>1, <1>2, PTL DEF ClientSpec

\* A strip that says "running" has a loop that reads that very run, and its numbers are the
\* run's own, however many runs are followed at once.
THEOREM StripIsTrue == ClientSpec => []ClientInv
<1>1. FollowInv => ClientInv
  <2> SUFFICES ASSUME FollowInv PROVE ClientInv
    OBVIOUS
  <2>1. \A k \in Calls : call[k] \in Call /\ Len(call[k].wire) <= MaxEvents
    BY DEF FollowInv, ClientTypes, WireOK
  <2>2. ClientTypeOK
    BY <2>1 DEF ClientTypeOK, FollowInv, ClientTypes, Call, Entry, Report
  <2>3. RunningStrip = "running" => entry.status = "streaming"
    BY DEF RunningStrip, FollowInv, ClientTypes, Entry
  <2> QED BY <2>2, <2>3 DEF ClientInv, FollowInv, EntryOK, PendingOK, RunForm
<1> QED BY <1>1, FollowSafe, PTL

\* A run shown as finished has completed, or failed with an empty message, and the report
\* next to it counts all its results once no fetch is under way, unless the page says that the
\* fetch failed, or a report read before was taken for the one that was needed.
THEOREM FinishedIsReported == ClientSpec => []FinishedRunIsReported
<1>1. FollowInv => FinishedRunIsReported
  <2> SUFFICES ASSUME FollowInv, RunningStrip = "finished" PROVE FinishedRunIsReported
    BY DEF FinishedRunIsReported
  <2>1. entry.status = "done"
    BY DEF RunningStrip, FollowInv, ClientTypes, Entry
  <2> QED BY <2>1 DEF FinishedRunIsReported, FollowInv, EntryOK, TrueEnd, ReportOK, ClientTypes, Entry,
           Counted
<1> QED BY <1>1, FollowSafe, PTL


(***************************************************************************)
(* The Radar page: the inductive invariant, and what the rows show.        *)
(***************************************************************************)

Options == {FeasibilityOption(b, n) : b \in {"gguf", "transformers"}, n \in Nat}

Reports == [status : {"pending", "success", "error"}, loaded : BOOLEAN,
            options : Seq(Options), fetching : BOOLEAN]

QueryOK(r) ==
  /\ r \in Reports
  /\ r.loaded => r.options # <<>>
  /\ r.status = "success" => r.loaded
  /\ r.status = "pending" => ~r.loaded
  /\ ~r.loaded /\ r.fetching => r.status = "pending"

\* A report that is neither there nor failed is on its way, if its model
\* is in the list that is shown.
Awaited(m) == reports[m].status = "pending" => reports[m].fetching

RadarTypeOK ==
  /\ order \in Orders /\ filter \in SUBSET Hub
  /\ models \in [Orders -> [loaded : BOOLEAN, data : Seq(Hub), fetching : BOOLEAN]]
  /\ reports \in [Hub -> Reports]

RadarInv ==
  /\ RadarTypeOK
  /\ \A m \in Hub : QueryOK(reports[m])
  /\ \A m \in Range(Listed) : Awaited(m)

\* The options of a report are those of the files and that of the weights.
LEMMA EstimatesAre ==
  ASSUME NEW detail \in [files : Seq(Nat), weights : Nat]
  PROVE  EstimateFeasibility(detail) \in Seq(Options)
<1> DEFINE ggufs == [i \in DOMAIN detail.files |-> FeasibilityOption("gguf", detail.files[i])]
           weights == IF detail.weights = NoSize THEN <<>>
                      ELSE <<FeasibilityOption("transformers", detail.weights)>>
<1>1. detail.files \in Seq(Nat) /\ detail.weights \in Nat
  OBVIOUS
<1>2. \A n \in Nat : FeasibilityOption("gguf", n) \in Options
                     /\ FeasibilityOption("transformers", n) \in Options
  BY DEF Options
<1>3. ggufs \in Seq(Options)
  <2>1. DOMAIN detail.files = 1 .. Len(detail.files) /\ Len(detail.files) \in Nat
    BY <1>1
  <2>2. \A i \in DOMAIN detail.files : detail.files[i] \in Nat
    BY <1>1
  <2> QED BY <1>2, <2>1, <2>2
<1>4. weights \in Seq(Options)
  BY <1>1, <1>2
<1> QED BY <1>3, <1>4 DEF EstimateFeasibility

LEMMA RadarStarts == RadarInit => RadarInv
<1> SUFFICES ASSUME RadarInit PROVE RadarInv
  OBVIOUS
<1>1. RadarTypeOK
  BY DEF RadarInit, RadarTypeOK, Orders, Reports
<1>2. \A m \in Hub : QueryOK(reports[m])
  BY DEF RadarInit, QueryOK, Reports
<1>3. Range(Listed) = {}
  BY DEF RadarInit, Listed, Range, Orders
<1> QED BY <1>1, <1>2, <1>3 DEF RadarInv

\* A query that is asked again is pending only while it is fetched.
LEMMA AskedIs ==
  ASSUME NEW r, QueryOK(r)
  PROVE  QueryOK(Asked(r)) /\ Asked(r).fetching
  BY DEF QueryOK, Reports, Asked

\* What is shown anew is asked for; the other reports stay as they are.
LEMMA ShowsKeeps ==
  ASSUME RadarInv, NEW s, NEW lists, NEW anew, Shows(s, lists, anew)
  PROVE  /\ reports' \in [Hub -> Reports]
         /\ \A m \in Hub : QueryOK(reports'[m])
         /\ \A m \in Hub : Awaited(m) => Awaited(m)'
         /\ \A m \in Hub \cap anew \cap Range(lists[s].data) : Awaited(m)'
<1> DEFINE shown == anew \cap Range(lists[s].data)
<1>1. PICK stale \in SUBSET {m \in shown : reports[m].loaded} :
        reports' = [m \in Hub |-> IF m \in stale \/ (m \in shown /\ ~reports[m].loaded)
                                  THEN Asked(reports[m]) ELSE reports[m]]
  BY DEF Shows
<1>2. \A m \in Hub : QueryOK(reports[m]) /\ QueryOK(Asked(reports[m]))
                     /\ Asked(reports[m]).fetching
  BY AskedIs DEF RadarInv
<1>3. \A m \in Hub : QueryOK(reports'[m])
                     /\ (reports'[m] = reports[m] \/ reports'[m].fetching)
                     /\ (m \in shown => reports'[m].fetching \/ reports[m].loaded)
                     /\ (m \in shown /\ ~reports'[m].fetching => reports'[m] = reports[m])
  BY <1>1, <1>2
<1>4. reports' \in [Hub -> Reports]
  BY <1>1, <1>3 DEF QueryOK
<1>5. ASSUME NEW m \in Hub, Awaited(m) PROVE Awaited(m)'
  BY <1>3, <1>5 DEF Awaited
<1>6. ASSUME NEW m \in Hub, m \in shown PROVE Awaited(m)'
  BY <1>2, <1>3, <1>6 DEF Awaited, QueryOK
<1> QED BY <1>3, <1>4, <1>5, <1>6

\* The models of a list that is shown were in the one before, or are asked
\* for.
LEMMA ShownIsAwaited ==
  ASSUME RadarInv, RadarTypeOK', Listed' \in Seq(Hub),
         NEW s, NEW lists, lists[s].data = Listed', Shows(s, lists, Hub \ Range(Listed))
  PROVE  \A m \in Range(Listed)' : Awaited(m)'
<1> SUFFICES ASSUME NEW m \in Range(Listed)' PROVE Awaited(m)'
  OBVIOUS
<1>1. Range(Listed)' = Range(lists[s].data)
  BY DEF Range
<1>2. m \in Hub
  <2>1. \A i \in DOMAIN Listed' : Listed'[i] \in Hub
    OBVIOUS
  <2> QED BY <2>1 DEF Range
<1>3. CASE m \in Range(Listed)
  BY <1>2, <1>3, ShowsKeeps DEF RadarInv
<1>4. CASE m \notin Range(Listed)
  BY <1>1, <1>2, <1>4, ShowsKeeps
<1> QED BY <1>3, <1>4

LEMMA ListIsOfHub ==
  ASSUME RadarTypeOK PROVE Listed \in Seq(Hub) /\ Range(Listed) \subseteq Hub
<1>1. Listed \in Seq(Hub)
  BY DEF RadarTypeOK, Listed
<1>2. \A i \in DOMAIN Listed : Listed[i] \in Hub
  BY <1>1
<1> QED BY <1>1, <1>2 DEF Range

LEMMA FilterChangeKeeps ==
  ASSUME RadarInv, NEW matching \in SUBSET Hub, FilterChange(matching) PROVE RadarInv'
<1>1. Range(Listed)' = Range(Listed)
  BY DEF FilterChange, Listed, Range
<1>2. RadarTypeOK'
  BY DEF FilterChange, RadarInv, RadarTypeOK
<1> QED BY <1>1, <1>2 DEF FilterChange, RadarInv, Awaited

LEMMA SortChangeKeeps ==
  ASSUME RadarInv, NEW s \in Orders, SortChange(s) PROVE RadarInv'
<1>1. Shows(s, models, Hub \ Range(Listed))
  BY DEF SortChange
<1>2. Listed' = models[s].data
  BY DEF SortChange, RadarInv, RadarTypeOK, Listed
<1>3. RadarTypeOK'
  BY <1>1, ShowsKeeps DEF SortChange, RadarInv, RadarTypeOK
<1>4. Listed' \in Seq(Hub)
  BY <1>2 DEF RadarInv, RadarTypeOK
<1>5. \A m \in Hub : QueryOK(reports'[m])
  BY <1>1, ShowsKeeps
<1>6. \A m \in Range(Listed)' : Awaited(m)'
  BY <1>1, <1>2, <1>3, <1>4, ShownIsAwaited
<1> QED BY <1>3, <1>5, <1>6 DEF RadarInv

LEMMA RefreshKeeps ==
  ASSUME RadarInv, Refresh PROVE RadarInv'
<1>1. Listed' = Listed /\ Range(Listed)' = Range(Listed)
  BY DEF Refresh, RadarInv, RadarTypeOK, Listed, Range
<1>2. /\ reports' \in [Hub -> Reports]
      /\ \A m \in Hub : QueryOK(reports'[m])
      /\ \A m \in Hub : Awaited(m) => Awaited(m)'
  <2>1. CASE UNCHANGED reports
    BY <2>1 DEF RadarInv, RadarTypeOK, Awaited
  <2>2. CASE Shows(order, models, Hub)
    BY <2>2, ShowsKeeps
  <2> QED BY <2>1, <2>2 DEF Refresh
<1>3. RadarTypeOK'
  BY <1>2 DEF Refresh, RadarInv, RadarTypeOK
<1> QED BY <1>1, <1>2, <1>3, ListIsOfHub DEF RadarInv

LEMMA ModelsArriveKeeps ==
  ASSUME RadarInv, NEW s \in Orders, ModelsArrive(s) PROVE RadarInv'
<1>1. PICK data \in Rankings :
        models' = [models EXCEPT ![s] = [loaded |-> TRUE, data |-> data, fetching |-> FALSE]]
  BY DEF ModelsArrive
<1>2. data \in Seq(Hub) /\ order' = order /\ filter' = filter
  BY RadarAssumption DEF ModelsArrive
<1>3. models' \in [Orders -> [loaded : BOOLEAN, data : Seq(Hub), fetching : BOOLEAN]]
  BY <1>1, <1>2 DEF RadarInv, RadarTypeOK
<1>4. CASE s = order
  <2>1. Shows(s, models', Hub \ Range(Listed))
    BY <1>4 DEF ModelsArrive
  <2>2. Listed' = models'[s].data /\ Listed' \in Seq(Hub)
    BY <1>1, <1>2, <1>3, <1>4 DEF RadarInv, RadarTypeOK, Listed
  <2>3. RadarTypeOK'
    BY <1>2, <1>3, <2>1, ShowsKeeps DEF RadarInv, RadarTypeOK
  <2>4. \A m \in Hub : QueryOK(reports'[m])
    BY <2>1, ShowsKeeps
  <2>5. \A m \in Range(Listed)' : Awaited(m)'
    BY <2>1, <2>2, <2>3, ShownIsAwaited
  <2> QED BY <2>3, <2>4, <2>5 DEF RadarInv
<1>5. CASE s # order
  <2>1. UNCHANGED reports
    BY <1>5 DEF ModelsArrive
  <2>2. Range(Listed)' = Range(Listed)
    BY <1>1, <1>2, <1>5 DEF RadarInv, RadarTypeOK, Listed, Range
  <2>3. RadarTypeOK'
    BY <1>2, <1>3, <2>1 DEF RadarInv, RadarTypeOK
  <2> QED BY <2>1, <2>2, <2>3 DEF RadarInv, Awaited
<1> QED BY <1>4, <1>5

LEMMA ModelsFailKeeps ==
  ASSUME RadarInv, NEW s \in Orders, ModelsFail(s) PROVE RadarInv'
<1>1. models' = [models EXCEPT ![s].fetching = FALSE] /\ UNCHANGED <<order, filter, reports>>
  BY DEF ModelsFail
<1>2. Range(Listed)' = Range(Listed)
  BY <1>1 DEF RadarInv, RadarTypeOK, Listed, Range
<1>3. RadarTypeOK'
  BY <1>1 DEF RadarInv, RadarTypeOK
<1> QED BY <1>1, <1>2, <1>3 DEF RadarInv, Awaited

\* An answer, good or bad, changes one report, and it is not awaited more.
LEMMA ReportChanges ==
  ASSUME RadarInv, NEW m \in Hub, NEW r, QueryOK(r), r.status # "pending",
         reports' = [reports EXCEPT ![m] = r], UNCHANGED <<order, filter, models>>
  PROVE  RadarInv'
<1>1. Range(Listed)' = Range(Listed) /\ Range(Listed) \subseteq Hub
  BY ListIsOfHub DEF RadarInv, Listed, Range
<1>2. \A n \in Hub : reports'[n] = IF n = m THEN r ELSE reports[n]
  BY DEF RadarInv, RadarTypeOK
<1>3. RadarTypeOK'
  BY <1>2 DEF RadarInv, RadarTypeOK, QueryOK
<1> QED BY <1>1, <1>2, <1>3 DEF RadarInv, Awaited

LEMMA FeasibilityArrivesKeeps ==
  ASSUME RadarInv, NEW m \in Hub, FeasibilityArrives(m) PROVE RadarInv'
<1>1. PICK detail \in Details : reports' = [reports EXCEPT ![m] =
        IF EstimateFeasibility(detail) = <<>>
        THEN [@ EXCEPT !.status = "error", !.fetching = FALSE]
        ELSE [status |-> "success", loaded |-> TRUE, options |-> EstimateFeasibility(detail),
              fetching |-> FALSE]]
  BY DEF FeasibilityArrives
<1>2. EstimateFeasibility(detail) \in Seq(Options)
  BY RadarAssumption, EstimatesAre
<1>3. QueryOK(reports[m])
  BY DEF RadarInv
<1>4. CASE EstimateFeasibility(detail) = <<>>
  <2> DEFINE r == [reports[m] EXCEPT !.status = "error", !.fetching = FALSE]
  <2>1. QueryOK(r) /\ r.status # "pending"
    BY <1>3 DEF QueryOK, Reports
  <2>2. reports' = [reports EXCEPT ![m] = r]
    BY <1>1, <1>4
  <2> QED BY <2>1, <2>2, ReportChanges DEF FeasibilityArrives
<1>5. CASE EstimateFeasibility(detail) # <<>>
  <2> DEFINE r == [status |-> "success", loaded |-> TRUE,
                   options |-> EstimateFeasibility(detail), fetching |-> FALSE]
  <2>1. QueryOK(r) /\ r.status # "pending"
    BY <1>2, <1>5 DEF QueryOK, Reports
  <2>2. reports' = [reports EXCEPT ![m] = r]
    BY <1>1, <1>5
  <2> QED BY <2>1, <2>2, ReportChanges DEF FeasibilityArrives
<1> QED BY <1>4, <1>5

LEMMA FeasibilityFailsKeeps ==
  ASSUME RadarInv, NEW m \in Hub, FeasibilityFails(m) PROVE RadarInv'
<1> DEFINE r == [reports[m] EXCEPT !.status = "error", !.fetching = FALSE]
<1>1. QueryOK(reports[m])
  BY DEF RadarInv
<1>2. QueryOK(r) /\ r.status # "pending"
  BY <1>1 DEF QueryOK, Reports
<1>3. reports' = [reports EXCEPT ![m] = r]
  BY DEF FeasibilityFails, RadarInv, RadarTypeOK
<1> QED BY <1>2, <1>3, ReportChanges DEF FeasibilityFails

LEMMA RadarKeeps == RadarInv /\ [RadarNext]_radarVars => RadarInv'
<1> SUFFICES ASSUME RadarInv, [RadarNext]_radarVars PROVE RadarInv'
  OBVIOUS
<1>1. CASE UNCHANGED radarVars
  BY <1>1 DEF radarVars, RadarInv, RadarTypeOK, Listed, Range, Awaited
<1>2. ASSUME NEW matching \in SUBSET Hub, FilterChange(matching) PROVE RadarInv'
  BY <1>2, FilterChangeKeeps
<1>3. ASSUME NEW s \in Orders, SortChange(s) PROVE RadarInv'
  BY <1>3, SortChangeKeeps
<1>4. ASSUME NEW s \in Orders, ModelsArrive(s) PROVE RadarInv'
  BY <1>4, ModelsArriveKeeps
<1>5. ASSUME NEW s \in Orders, ModelsFail(s) PROVE RadarInv'
  BY <1>5, ModelsFailKeeps
<1>6. CASE Refresh
  BY <1>6, RefreshKeeps
<1>7. ASSUME NEW m \in Hub, FeasibilityArrives(m) PROVE RadarInv'
  BY <1>7, FeasibilityArrivesKeeps
<1>8. ASSUME NEW m \in Hub, FeasibilityFails(m) PROVE RadarInv'
  BY <1>8, FeasibilityFailsKeeps
<1> QED BY <1>1, <1>2, <1>3, <1>4, <1>5, <1>6, <1>7, <1>8 DEF RadarNext

LEMMA MinOfTwo == \A x, y \in Int : Min({x, y}) = IF x <= y THEN x ELSE y
<1> SUFFICES ASSUME NEW x \in Int, NEW y \in Int PROVE Min({x, y}) = IF x <= y THEN x ELSE y
  OBVIOUS
<1>1. \E z \in {x, y} : \A w \in {x, y} : z <= w
  OBVIOUS
<1>2. Min({x, y}) \in {x, y} /\ \A w \in {x, y} : Min({x, y}) <= w
  BY <1>1 DEF Min
<1> QED BY <1>2

LEMMA MaxOfTwo == \A x, y \in Int : Max({x, y}) = IF x >= y THEN x ELSE y
<1> SUFFICES ASSUME NEW x \in Int, NEW y \in Int PROVE Max({x, y}) = IF x >= y THEN x ELSE y
  OBVIOUS
<1>1. \E z \in {x, y} : \A w \in {x, y} : z >= w
  OBVIOUS
<1>2. Max({x, y}) \in {x, y} /\ \A w \in {x, y} : Max({x, y}) >= w
  BY <1>1 DEF Max
<1> QED BY <1>2

LEMMA LeastIs ==
  ASSUME NEW S \in SUBSET Nat, S # {}
  PROVE  Min(S) \in S /\ \A y \in S : Min(S) <= y
<1>1. PICK x \in S : \A y \in S : ~(<<y, x>> \in OpToRel(<, Nat))
  BY NatLessThanWellFounded, WFMin
<1>2. \A y \in S : ~(y < x)
  BY <1>1 DEF OpToRel
<1>3. \A y \in S : x <= y
  BY <1>2
<1> QED BY <1>3 DEF Min

Lesser(x, y) == IF x <= y THEN x ELSE y
Larger(x, y) == IF x >= y THEN x ELSE y

Piece(c, start, end) == [cls |-> c, start |-> start, end |-> end]

\* The pieces of the bar from a to b are those of the three colours that have a length.
Pieces(a, b) ==
  {seg \in {Piece("seg-fit", a, Lesser(b, 42 * Usable)),
            Piece("seg-tight", Larger(a, 42 * Usable), Lesser(b, 57 * Usable)),
            Piece("hatch", Larger(a, 57 * Usable), b)} : seg.end > seg.start}

LEMMA SegmentsAre ==
  ASSUME NEW lo \in Nat, NEW hi \in Nat, lo <= hi
  PROVE  LET a == Lesser(60 * lo, 88 * Usable)
             b == Larger(Lesser(60 * hi, 90 * Usable), a + 2 * Usable)
         IN GaugeSegments(lo, hi) = Pieces(a, b)
<1> DEFINE a == Lesser(60 * lo, 88 * Usable)
           b == Larger(Lesser(60 * hi, 90 * Usable), a + 2 * Usable)
           clipped(band) == [cls |-> band.cls, start |-> Max({a, band.start}),
                             end |-> Min({b, band.end})]
<1>1. Usable \in Nat \ {0}
  BY RadarAssumption
<1>2. /\ a \in Nat /\ b \in Nat /\ b <= 90 * Usable
      /\ Min({60 * lo, GaugeMax - MinWidth}) = a
      /\ Max({Min({60 * hi, GaugeMax}), a + MinWidth}) = b
  BY <1>1, MinOfTwo, MaxOfTwo DEF GaugeMax, MinWidth, Lesser, Larger
<1> HIDE DEF a, b
<1>3. GaugeSegments(lo, hi) = {seg \in {clipped(band) : band \in Bands} : seg.end > seg.start}
  BY <1>2 DEF GaugeSegments
<1>4. /\ Max({a, 0}) = a /\ Min({b, 42 * Usable}) = Lesser(b, 42 * Usable)
      /\ Max({a, 42 * Usable}) = Larger(a, 42 * Usable)
      /\ Min({b, 57 * Usable}) = Lesser(b, 57 * Usable)
      /\ Max({a, 57 * Usable}) = Larger(a, 57 * Usable)
      /\ Min({b, 90 * Usable}) = b
  BY <1>1, <1>2, MinOfTwo, MaxOfTwo DEF Lesser, Larger
<1>5. {clipped(band) : band \in Bands} =
        {Piece("seg-fit", a, Lesser(b, 42 * Usable)),
         Piece("seg-tight", Larger(a, 42 * Usable), Lesser(b, 57 * Usable)),
         Piece("hatch", Larger(a, 57 * Usable), b)}
  <2>1. {clipped(band) : band \in Bands} =
          {clipped([cls |-> "seg-fit", start |-> 0, end |-> 42 * Usable]),
           clipped([cls |-> "seg-tight", start |-> 42 * Usable, end |-> 57 * Usable]),
           clipped([cls |-> "hatch", start |-> 57 * Usable, end |-> GaugeMax])}
    <3> HIDE DEF clipped
    <3> QED BY DEF Bands
  <2>2. \A c, start, end : clipped([cls |-> c, start |-> start, end |-> end]) =
                             Piece(c, Max({a, start}), Min({b, end}))
    BY DEF Piece
  <2>3. clipped([cls |-> "seg-fit", start |-> 0, end |-> 42 * Usable]) =
          Piece("seg-fit", a, Lesser(b, 42 * Usable))
    <3> HIDE DEF clipped
    <3> QED BY <2>2, <1>4
  <2>4. clipped([cls |-> "seg-tight", start |-> 42 * Usable, end |-> 57 * Usable]) =
          Piece("seg-tight", Larger(a, 42 * Usable), Lesser(b, 57 * Usable))
    <3> HIDE DEF clipped
    <3> QED BY <2>2, <1>4
  <2>5. clipped([cls |-> "hatch", start |-> 57 * Usable, end |-> GaugeMax]) =
          Piece("hatch", Larger(a, 57 * Usable), b)
    <3> HIDE DEF clipped
    <3> QED BY <2>2, <1>4 DEF GaugeMax
  <2> HIDE DEF clipped
  <2> QED BY <2>1, <2>3, <2>4, <2>5
<1>6. GaugeSegments(lo, hi) = Pieces(a, b)
  BY <1>3, <1>5 DEF Pieces
<1> QED BY <1>6 DEF a, b

FirstColour(a) ==
  IF a < 42 * Usable THEN "seg-fit" ELSE IF a < 57 * Usable THEN "seg-tight" ELSE "hatch"

\* The pieces are one stretch from a to b, each colour being there that the stretch meets.
IsStretch(bar, a, b) ==
  /\ \A seg \in bar : 0 <= seg.start /\ seg.start < seg.end /\ seg.end <= GaugeMax
  /\ \A seg, other \in bar : seg # other => seg.end <= other.start \/ other.end <= seg.start
  /\ \E first \in bar :
       /\ first.cls = FirstColour(a)
       /\ \A seg \in bar \ {first} : \E before \in bar : before.end = seg.start
  /\ a < 42 * Usable => \E seg \in bar : seg.cls = "seg-fit"
  /\ a < 57 * Usable /\ b > 42 * Usable => \E seg \in bar : seg.cls = "seg-tight"
  /\ b > 57 * Usable => \E seg \in bar : seg.cls = "hatch" /\ seg.end = b

LEMMA PiecesAre ==
  ASSUME NEW a \in Nat, NEW b \in Nat, a < b, b <= 90 * Usable
  PROVE  IsStretch(Pieces(a, b), a, b)
<1> DEFINE fit   == Piece("seg-fit", a, Lesser(b, 42 * Usable))
           tight == Piece("seg-tight", Larger(a, 42 * Usable), Lesser(b, 57 * Usable))
           hatch == Piece("hatch", Larger(a, 57 * Usable), b)
<1>0. Usable \in Nat \ {0}
  BY RadarAssumption
<1>1. /\ fit.cls = "seg-fit" /\ fit.start = a /\ fit.end = Lesser(b, 42 * Usable)
      /\ tight.cls = "seg-tight" /\ tight.start = Larger(a, 42 * Usable)
      /\ tight.end = Lesser(b, 57 * Usable)
      /\ hatch.cls = "hatch" /\ hatch.start = Larger(a, 57 * Usable) /\ hatch.end = b
  BY DEF Piece
<1>2. \A seg : seg \in Pieces(a, b) <=>
        \/ seg = fit /\ fit.end > fit.start
        \/ seg = tight /\ tight.end > tight.start
        \/ seg = hatch /\ hatch.end > hatch.start
  BY DEF Pieces
<1> HIDE DEF fit, tight, hatch
<1>3. /\ fit.end > fit.start <=> a < 42 * Usable
      /\ tight.end > tight.start <=> a < 57 * Usable /\ b > 42 * Usable
      /\ hatch.end > hatch.start <=> b > 57 * Usable
  BY <1>0, <1>1 DEF Lesser, Larger
<1>4. \A seg \in Pieces(a, b) : 0 <= seg.start /\ seg.start < seg.end /\ seg.end <= GaugeMax
  BY <1>0, <1>1, <1>2 DEF Lesser, Larger, GaugeMax
<1>5. /\ fit.end <= tight.start /\ fit.end <= hatch.start /\ tight.end <= hatch.start
  BY <1>0, <1>1 DEF Lesser, Larger
<1>6. \A seg, other \in Pieces(a, b) :
        seg # other => seg.end <= other.start \/ other.end <= seg.start
  BY <1>2, <1>5
<1>7. \E first \in Pieces(a, b) :
        /\ first.cls = FirstColour(a)
        /\ \A seg \in Pieces(a, b) \ {first} :
             \E before \in Pieces(a, b) : before.end = seg.start
  <2>1. CASE a < 42 * Usable
    <3>1. fit \in Pieces(a, b) /\ fit.cls = FirstColour(a)
      BY <1>1, <1>2, <1>3, <2>1 DEF FirstColour
    <3>2. tight \in Pieces(a, b) => fit.end = tight.start
      BY <1>0, <1>1, <1>2, <1>3, <2>1 DEF Lesser, Larger
    <3>3. hatch \in Pieces(a, b) /\ hatch # fit =>
            tight \in Pieces(a, b) /\ tight.end = hatch.start
      <4>1. hatch \in Pieces(a, b) /\ hatch # fit => b > 57 * Usable
        BY <1>1, <1>2, <1>3
      <4>2. b > 57 * Usable =>
              a < 57 * Usable /\ b > 42 * Usable /\ tight.end = hatch.start
        BY <1>0, <1>1, <2>1 DEF Lesser, Larger
      <4> QED BY <1>2, <1>3, <4>1, <4>2
    <3> QED BY <1>2, <3>1, <3>2, <3>3
  <2>2. CASE a >= 42 * Usable /\ a < 57 * Usable
    <3>1. tight \in Pieces(a, b) /\ tight.cls = FirstColour(a)
      BY <1>0, <1>1, <1>2, <1>3, <2>2 DEF FirstColour
    <3>2. \A seg \in Pieces(a, b) : seg = tight \/ (seg = hatch /\ b > 57 * Usable)
      BY <1>0, <1>2, <1>3, <2>2
    <3>3. b > 57 * Usable => tight.end = hatch.start
      BY <1>0, <1>1, <2>2 DEF Lesser, Larger
    <3> QED BY <3>1, <3>2, <3>3
  <2>3. CASE a >= 57 * Usable
    <3>1. hatch \in Pieces(a, b) /\ hatch.cls = FirstColour(a)
      BY <1>0, <1>1, <1>2, <1>3, <2>3 DEF FirstColour
    <3>2. \A seg \in Pieces(a, b) : seg = hatch
      BY <1>0, <1>2, <1>3, <2>3
    <3> QED BY <3>1, <3>2
  <2> QED BY <1>0, <2>1, <2>2, <2>3
<1>8. /\ a < 42 * Usable => \E seg \in Pieces(a, b) : seg.cls = "seg-fit"
      /\ a < 57 * Usable /\ b > 42 * Usable => \E seg \in Pieces(a, b) : seg.cls = "seg-tight"
      /\ b > 57 * Usable => \E seg \in Pieces(a, b) : seg.cls = "hatch" /\ seg.end = b
  BY <1>1, <1>2, <1>3
<1> QED BY <1>4, <1>6, <1>7, <1>8 DEF IsStretch

Verdicts == {"comfortable", "tight", "wont_fit"}

LEMMA OptionIs ==
  ASSUME NEW o \in Options
  PROVE  /\ o.estimate \in Nat /\ o.verdict \in Verdicts
         /\ o.verdict = "comfortable" <=> 60 * o.estimate < 42 * Usable
         /\ o.verdict = "wont_fit" <=> 60 * o.estimate >= 57 * Usable
<1>1. PICK b \in {"gguf", "transformers"}, n \in Nat : o = FeasibilityOption(b, n)
  BY DEF Options
<1> DEFINE e == (12 * n + 5) \div 10
<1>2. e \in Nat
  OBVIOUS
<1>3. /\ o.estimate = e
      /\ o.verdict = CASE 100 * e < 70 * Usable -> "comfortable"
                       [] 100 * e >= 70 * Usable /\ 100 * e < 95 * Usable -> "tight"
                       [] OTHER -> "wont_fit"
  BY <1>1 DEF FeasibilityOption
<1> HIDE DEF e
<1> QED BY <1>2, <1>3, RadarAssumption DEF Verdicts

LEMMA BestIs ==
  ASSUME NEW V \in SUBSET Verdicts, NEW v \in V, \A w \in V : Rank(v) <= Rank(w)
  PROVE  BestVerdict(V) = v
<1>1. \A w \in Verdicts : Rank(w) \in Nat /\ \A x \in Verdicts : Rank(w) = Rank(x) => w = x
  BY DEF Rank, Verdicts
<1>2. BestVerdict(V) \in V /\ \A w \in V : Rank(BestVerdict(V)) <= Rank(w)
  BY DEF BestVerdict
<1>3. Rank(BestVerdict(V)) = Rank(v)
  BY <1>1, <1>2
<1> QED BY <1>1, <1>2, <1>3

\* Of finitely many numbers in a row one is the greatest.
LEMMA GreatestInARow ==
  ASSUME NEW n \in Nat \ {0}, NEW f, \A i \in 1 .. n : f[i] \in Nat
  PROVE  \E j \in 1 .. n : \A i \in 1 .. n : f[i] <= f[j]
<1> DEFINE good(k) == \E j \in 1 .. k : \A i \in 1 .. k : f[i] <= f[j]
           bad == {k \in 1 .. n : ~good(k)}
<1>1. ASSUME bad # {} PROVE FALSE
  <2>1. bad \in SUBSET Nat
    OBVIOUS
  <2>2. PICK k \in bad : \A m \in bad : k <= m
    <3> HIDE DEF bad
    <3>1. Min(bad) \in bad /\ \A y \in bad : Min(bad) <= y
      BY <1>1, <2>1, LeastIs
    <3> QED BY <3>1
  <2>3. k \in 1 .. n /\ ~good(k)
    OBVIOUS
  <2>4. k # 1
    BY <2>3
  <2>5. k - 1 \in 1 .. n /\ k - 1 \notin bad
    <3>1. k - 1 \in 1 .. n /\ ~(k <= k - 1)
      BY <2>3, <2>4
    <3> HIDE DEF bad
    <3> QED BY <2>2, <3>1
  <2>6. good(k - 1)
    BY <2>5
  <2>7. PICK j \in 1 .. k - 1 : \A i \in 1 .. k - 1 : f[i] <= f[j]
    BY <2>6
  <2> HIDE DEF good, bad
  <2>8. j \in 1 .. n /\ j \in 1 .. k /\ k \in 1 .. k /\ \A i \in 1 .. k : i = k \/ i \in 1 .. k - 1
    BY <2>3
  <2>9. f[j] \in Nat /\ f[k] \in Nat /\ \A i \in 1 .. k - 1 : f[i] \in Nat
    BY <2>3, <2>8
  <2>10. \E h \in 1 .. k : \A i \in 1 .. k : f[i] <= f[h]
    <3>1. CASE f[k] <= f[j]
      BY <2>7, <2>8, <3>1
    <3>2. CASE f[j] <= f[k]
      BY <2>7, <2>8, <2>9, <3>2
    <3> QED BY <2>9, <3>1, <3>2
  <2> QED BY <2>3, <2>10 DEF good
<1>2. n \in 1 .. n
  OBVIOUS
<1> QED BY <1>1, <1>2

LEMMA RangeOfEstimates ==
  ASSUME NEW answer, answer.options \in Seq(Options), answer.options # <<>>
  PROVE  LET lo == Min(Estimates(answer))
             hi == Max(Estimates(answer))
         IN /\ lo \in Nat /\ hi \in Nat
            /\ \E i \in DOMAIN answer.options : lo = answer.options[i].estimate
            /\ \A i \in DOMAIN answer.options :
                 lo <= answer.options[i].estimate /\ answer.options[i].estimate <= hi
<1> DEFINE f == [i \in DOMAIN answer.options |-> answer.options[i].estimate]
           n == Len(answer.options)
<1>1. DOMAIN answer.options = 1 .. n /\ n \in Nat \ {0}
  OBVIOUS
<1>2. \A i \in DOMAIN answer.options : answer.options[i] \in Options
  OBVIOUS
<1>3. \A i \in 1 .. n : f[i] \in Nat /\ f[i] = answer.options[i].estimate
  BY <1>1, <1>2, OptionIs
<1>4. Estimates(answer) = {f[i] : i \in 1 .. n}
  BY <1>1 DEF Estimates
<1> HIDE DEF f, n
<1>5. PICK j \in 1 .. n : \A i \in 1 .. n : f[i] <= f[j]
  BY <1>1, <1>3, GreatestInARow
<1>6. Max(Estimates(answer)) \in Estimates(answer)
      /\ \A y \in Estimates(answer) : Max(Estimates(answer)) >= y
  <2>1. f[j] \in Estimates(answer) /\ \A y \in Estimates(answer) : f[j] >= y
    BY <1>3, <1>4, <1>5
  <2> QED BY <2>1 DEF Max
<1>7. Min(Estimates(answer)) \in Estimates(answer)
      /\ \A y \in Estimates(answer) : Min(Estimates(answer)) <= y
  <2>1. Estimates(answer) \in SUBSET Nat /\ Estimates(answer) # {}
    BY <1>1, <1>3, <1>4
  <2> QED BY <2>1, LeastIs
<1> QED BY <1>1, <1>3, <1>4, <1>6, <1>7

\* Chip and first colour are those of the smallest option.
LEMMA BestIsSmallest ==
  ASSUME NEW answer, answer.options \in Seq(Options), answer.options # <<>>,
         NEW k \in DOMAIN answer.options,
         \A i \in DOMAIN answer.options : answer.options[k].estimate <= answer.options[i].estimate
  PROVE  BestVerdict({answer.options[i].verdict : i \in DOMAIN answer.options}) =
           answer.options[k].verdict
<1> DEFINE V == {answer.options[i].verdict : i \in DOMAIN answer.options}
<1>0. Usable \in Nat \ {0}
  BY RadarAssumption
<1>1. \A i \in DOMAIN answer.options : answer.options[i] \in Options
  OBVIOUS
<1>2. V \in SUBSET Verdicts /\ answer.options[k].verdict \in V
  BY <1>1, OptionIs
<1>3. ASSUME NEW i \in DOMAIN answer.options
      PROVE  Rank(answer.options[k].verdict) <= Rank(answer.options[i].verdict)
  <2> DEFINE v == answer.options[k].verdict
             w == answer.options[i].verdict
             d == answer.options[k].estimate
             e == answer.options[i].estimate
  <2>1. /\ d \in Nat /\ v \in Verdicts /\ (v = "comfortable" <=> 60 * d < 42 * Usable)
        /\ (v = "wont_fit" <=> 60 * d >= 57 * Usable)
    BY <1>1, OptionIs
  <2>2. /\ e \in Nat /\ w \in Verdicts /\ (w = "comfortable" <=> 60 * e < 42 * Usable)
        /\ (w = "wont_fit" <=> 60 * e >= 57 * Usable)
    BY <1>1, <1>3, OptionIs
  <2>3. d <= e
    OBVIOUS
  <2> HIDE DEF v, w, d, e
  <2>4. (w = "comfortable" => v = "comfortable") /\ (v = "wont_fit" => w = "wont_fit")
    BY <1>0, <2>1, <2>2, <2>3
  <2>5. Rank(v) <= Rank(w)
    BY <2>1, <2>2, <2>4 DEF Rank, Verdicts
  <2> QED BY <2>5 DEF v, w
<1>4. \A w \in V : Rank(answer.options[k].verdict) <= Rank(w)
  BY <1>3
<1> HIDE DEF V
<1>5. BestVerdict(V) = answer.options[k].verdict
  BY <1>2, <1>4, BestIs
<1> QED BY <1>5 DEF V

LEMMA BarIs ==
  ASSUME NEW answer, answer.options \in Seq(Options), answer.options # <<>>,
         answer.status = "success"
  PROVE  FeasibilityGauge(answer) # {} /\ BarAgrees(FeasibilityGauge(answer), answer.options)
<1> DEFINE options == answer.options
           lo == Min(Estimates(answer))
           hi == Max(Estimates(answer))
           a == Lesser(60 * lo, 88 * Usable)
           b == Larger(Lesser(60 * hi, 90 * Usable), a + 2 * Usable)
           bar == FeasibilityGauge(answer)
<1>0. Usable \in Nat \ {0}
  BY RadarAssumption
<1>1. /\ lo \in Nat /\ hi \in Nat
      /\ \E i \in DOMAIN options : lo = options[i].estimate
      /\ \A i \in DOMAIN options : lo <= options[i].estimate /\ options[i].estimate <= hi
  BY RangeOfEstimates
<1>2. \A i \in DOMAIN options : options[i] \in Options
  OBVIOUS
<1>3. \A i \in DOMAIN options : options[i].estimate \in Nat
  BY <1>2, OptionIs
<1>4. lo <= hi
  <2> HIDE DEF lo, hi, options
  <2> QED BY <1>1, <1>3
<1>5. bar = Pieces(a, b)
  <2>1. bar = GaugeSegments(lo, hi)
    BY DEF FeasibilityGauge
  <2> HIDE DEF lo, hi
  <2> QED BY <1>1, <1>4, <2>1, SegmentsAre
<1>6. PICK k \in DOMAIN options : lo = options[k].estimate
  BY <1>1
<1>7. \A i \in DOMAIN options : options[k].estimate <= options[i].estimate
  BY <1>1, <1>6
<1>8. BestVerdict({options[i].verdict : i \in DOMAIN options}) = options[k].verdict
  BY <1>7, BestIsSmallest
<1> HIDE DEF lo, hi
<1>9. a \in Nat /\ b \in Nat /\ a < b /\ b <= 90 * Usable /\ a <= 60 * lo
      /\ (a = 60 * lo \/ (a >= 57 * Usable /\ 60 * lo >= 57 * Usable))
      /\ (b >= 60 * hi \/ b = 90 * Usable)
  <2> HIDE DEF options, bar
  <2>1. /\ a \in Nat /\ a <= 60 * lo /\ a <= 88 * Usable
        /\ (a = 60 * lo \/ (a >= 57 * Usable /\ 60 * lo >= 57 * Usable))
    BY <1>0, <1>1 DEF Lesser
  <2> HIDE DEF a
  <2>2. b \in Nat /\ a < b /\ b <= 90 * Usable /\ (b >= 60 * hi \/ b = 90 * Usable)
    BY <1>0, <1>1, <2>1 DEF Lesser, Larger
  <2> QED BY <2>1, <2>2
<1> HIDE DEF a, b
<1>10. IsStretch(bar, a, b)
  <2> HIDE DEF bar, options
  <2> QED BY <1>5, <1>9, PiecesAre
<1> HIDE DEF bar
<1>11. FirstColour(a) = Colour(options[k].verdict)
  <2>1. /\ options[k].verdict \in Verdicts
        /\ options[k].verdict = "comfortable" <=> 60 * lo < 42 * Usable
        /\ options[k].verdict = "wont_fit" <=> 60 * lo >= 57 * Usable
    BY <1>2, <1>6, OptionIs
  <2>2. (a < 42 * Usable <=> 60 * lo < 42 * Usable) /\ (a < 57 * Usable <=> 60 * lo < 57 * Usable)
    BY <1>0, <1>1, <1>9
  <2> HIDE DEF options
  <2> QED BY <1>0, <1>1, <1>9, <2>1, <2>2 DEF FirstColour, Colour, Verdicts
<1>12. ASSUME NEW i \in DOMAIN options
       PROVE  /\ 100 * options[i].estimate \notin {70 * Usable, 95 * Usable}
                   => \E seg \in bar : seg.cls = Colour(options[i].verdict)
              /\ options[i].estimate > Usable => \E seg \in bar : seg.end > 60 * Usable
  <2> DEFINE v == options[i].verdict
             e == options[i].estimate
  <2>1. /\ e \in Nat /\ v \in Verdicts /\ (v = "comfortable" <=> 60 * e < 42 * Usable)
        /\ (v = "wont_fit" <=> 60 * e >= 57 * Usable)
    BY <1>2, <1>12, OptionIs
  <2>2. lo <= e /\ e <= hi
    BY <1>1, <1>12
  <2> HIDE DEF v, e, options
  <2>3. a <= 60 * e /\ (b >= 60 * e \/ b = 90 * Usable)
    BY <1>0, <1>1, <1>9, <2>1, <2>2
  <2>4. ASSUME 100 * e \notin {70 * Usable, 95 * Usable}
        PROVE  \E seg \in bar : seg.cls = Colour(v)
    <3>1. CASE v = "comfortable"
      <4>1. a < 42 * Usable
        BY <1>0, <1>9, <2>1, <2>3, <3>1
      <4> QED BY <1>10, <3>1, <4>1 DEF Colour, IsStretch
    <3>2. CASE v = "tight"
      <4>1. a < 57 * Usable /\ b > 42 * Usable
        BY <1>0, <1>9, <2>1, <2>3, <2>4, <3>2
      <4> QED BY <1>10, <3>2, <4>1 DEF Colour, IsStretch
    <3>3. CASE v = "wont_fit"
      <4>1. b > 57 * Usable
        BY <1>0, <1>9, <2>1, <2>3, <2>4, <3>3
      <4> QED BY <1>10, <3>3, <4>1 DEF Colour, IsStretch
    <3> QED BY <2>1, <3>1, <3>2, <3>3 DEF Verdicts
  <2>5. ASSUME e > Usable PROVE \E seg \in bar : seg.end > 60 * Usable
    <3>1. b > 60 * Usable /\ b > 57 * Usable
      BY <1>0, <1>9, <2>1, <2>3, <2>5
    <3>2. PICK seg \in bar : seg.end = b
      BY <1>10, <3>1 DEF IsStretch
    <3> QED BY <3>1, <3>2
  <2> QED BY <2>4, <2>5 DEF v, e
<1>13. bar # {}
  BY <1>10 DEF IsStretch
<1>14. BarAgrees(bar, options)
  BY <1>8, <1>10, <1>11, <1>12 DEF BarAgrees, IsStretch
<1> QED BY <1>13, <1>14 DEF bar

\* The chip is green when an option fits, and red when none fits, not even tightly.
LEMMA CountsAgree ==
  ASSUME NEW answer, answer.options \in Seq(Options), answer.options # <<>>,
         answer.status = "success"
  PROVE  LET verdict == FeasibilityVerdict(answer)
         IN /\ verdict.chip \in Verdicts
            /\ verdict.chip = "comfortable" <=> verdict.fit > 0
            /\ verdict.chip = "wont_fit" <=> verdict.fit + verdict.tight = 0
<1> DEFINE V == {answer.options[i].verdict : i \in DOMAIN answer.options}
           places(v) == {i \in DOMAIN answer.options : answer.options[i].verdict = v}
           verdict == FeasibilityVerdict(answer)
<1>1. verdict = [chip |-> BestVerdict(V), fit |-> Cardinality(places("comfortable")),
                 tight |-> Cardinality(places("tight"))]
  BY DEF FeasibilityVerdict
<1>2. \A i \in DOMAIN answer.options : answer.options[i].verdict \in Verdicts
  <2>1. \A i \in DOMAIN answer.options : answer.options[i] \in Options
    OBVIOUS
  <2> QED BY <2>1, OptionIs
<1>3. V \in SUBSET Verdicts /\ V # {}
  <2>1. 1 \in DOMAIN answer.options
    OBVIOUS
  <2> QED BY <1>2, <2>1
<1>4. IsFiniteSet(DOMAIN answer.options)
  <2>1. DOMAIN answer.options = 1 .. Len(answer.options) /\ Len(answer.options) \in Nat
    OBVIOUS
  <2> QED BY <2>1, FS_Interval
<1>5. \A v : /\ Cardinality(places(v)) \in Nat
             /\ Cardinality(places(v)) = 0 <=> v \notin V
  <2> SUFFICES ASSUME NEW v PROVE /\ Cardinality(places(v)) \in Nat
                                  /\ Cardinality(places(v)) = 0 <=> v \notin V
    OBVIOUS
  <2>1. IsFiniteSet(places(v))
    BY <1>4, FS_Subset
  <2>2. places(v) = {} <=> v \notin V
    OBVIOUS
  <2> HIDE DEF places, V
  <2> QED BY <2>1, <2>2, FS_CardinalityType, FS_EmptySet
<1> HIDE DEF V, places
<1>6. /\ BestVerdict(V) \in V
      /\ BestVerdict(V) = "comfortable" <=> "comfortable" \in V
      /\ BestVerdict(V) = "wont_fit" <=> "comfortable" \notin V /\ "tight" \notin V
  <2>1. CASE "comfortable" \in V
    <3>1. \A w \in V : Rank("comfortable") <= Rank(w)
      BY <1>3 DEF Rank, Verdicts
    <3>2. BestVerdict(V) = "comfortable"
      BY <1>3, <2>1, <3>1, BestIs
    <3> QED BY <2>1, <3>2
  <2>2. CASE "comfortable" \notin V /\ "tight" \in V
    <3>1. \A w \in V : Rank("tight") <= Rank(w)
      BY <1>3, <2>2 DEF Rank, Verdicts
    <3>2. BestVerdict(V) = "tight"
      BY <1>3, <2>2, <3>1, BestIs
    <3> QED BY <2>2, <3>2
  <2>3. CASE "comfortable" \notin V /\ "tight" \notin V
    <3>1. V = {"wont_fit"}
      BY <1>3, <2>3 DEF Verdicts
    <3>2. "wont_fit" \in V /\ \A w \in V : Rank("wont_fit") <= Rank(w)
      BY <3>1 DEF Rank
    <3>3. BestVerdict(V) = "wont_fit"
      BY <1>3, <3>2, BestIs
    <3> QED BY <2>3, <3>1, <3>3
  <2> QED BY <2>1, <2>2, <2>3
<1>7. verdict.chip = BestVerdict(V) /\ verdict.fit = Cardinality(places("comfortable"))
      /\ verdict.tight = Cardinality(places("tight"))
  BY <1>1
<1> HIDE DEF verdict
<1>8. /\ verdict.chip \in Verdicts
      /\ verdict.chip = "comfortable" <=> verdict.fit > 0
      /\ verdict.chip = "wont_fit" <=> verdict.fit + verdict.tight = 0
  <2>1. verdict.fit \in Nat /\ verdict.tight \in Nat
        /\ (verdict.fit = 0 <=> "comfortable" \notin V) /\ (verdict.tight = 0 <=> "tight" \notin V)
    BY <1>5, <1>7
  <2> QED BY <1>3, <1>6, <1>7, <2>1
<1> QED BY <1>8 DEF verdict

LEMMA RowIs ==
  ASSUME RadarInv, NEW i \in Shown
  PROVE  LET row == RadarRow(i, Listed[i], FeasibilityResults[i])
         IN /\ row.model = Listed[i] /\ row.model \in Range(Listed) \cap filter
            /\ Listed[row.rank] = row.model
            /\ row.formats = FormatChips(reports[row.model])
            /\ RowAgrees(row, reports[row.model])
<1> DEFINE m == Listed[i]
           r == reports[m]
           row == RadarRow(i, Listed[i], FeasibilityResults[i])
<1>1. i \in DOMAIN Listed /\ m \in filter /\ m \in Range(Listed) /\ m \in Hub
  BY ListIsOfHub DEF Shown, Range, RadarInv
<1>2. FeasibilityResults[i] = r
  BY <1>1 DEF FeasibilityResults
<1>3. row = [rank |-> i, model |-> m, formats |-> FormatChips(r), bar |-> FeasibilityGauge(r),
             verdict |-> FeasibilityVerdict(r)]
  BY <1>2 DEF RadarRow
<1>4. QueryOK(r) /\ Awaited(m)
  BY <1>1 DEF RadarInv
<1>5. r.status \in {"pending", "success", "error"} /\ r.options \in Seq(Options)
  BY <1>4 DEF QueryOK, Reports
<1>6. r.status = "success" => r.loaded /\ r.options # <<>>
  BY <1>4 DEF QueryOK
<1>7. r.status = "success" =>
        /\ FeasibilityGauge(r) # {} /\ BarAgrees(FeasibilityGauge(r), r.options)
        /\ FeasibilityVerdict(r).chip \in Verdicts
        /\ FeasibilityVerdict(r).chip = "comfortable" <=> FeasibilityVerdict(r).fit > 0
        /\ FeasibilityVerdict(r).chip = "wont_fit" <=>
             FeasibilityVerdict(r).fit + FeasibilityVerdict(r).tight = 0
  BY <1>5, <1>6, BarIs, CountsAgree
<1>8. r.status = "success" => RadarTable.legend
  BY <1>1, <1>6 DEF RadarTable
<1>9. r.status # "success" => FeasibilityGauge(r) = {}
  BY DEF FeasibilityGauge
<1>10. /\ r.status = "pending" => FeasibilityVerdict(r).chip = "Estimating"
       /\ r.status = "error" => FeasibilityVerdict(r).chip = "Unknown"
  BY DEF FeasibilityVerdict
<1>11. r.status = "pending" <=> ~r.loaded /\ r.fetching
  BY <1>4 DEF QueryOK, Awaited
<1> HIDE DEF m, r
<1>12. row.rank = i /\ row.model = m /\ row.formats = FormatChips(r)
       /\ row.bar = FeasibilityGauge(r) /\ row.verdict = FeasibilityVerdict(r)
  BY <1>3
<1> HIDE DEF row
<1>13. row.bar = {} <=> row.verdict.chip \in {"Estimating", "Unknown"}
  BY <1>5, <1>7, <1>9, <1>10, <1>12 DEF Verdicts
<1>14. row.verdict.chip = "Estimating" <=> ~r.loaded /\ r.fetching
  BY <1>5, <1>7, <1>10, <1>11, <1>12 DEF Verdicts
<1>15. RowAgrees(row, r)
  BY <1>7, <1>8, <1>12, <1>13, <1>14 DEF RowAgrees
<1>16. /\ row.model = m /\ row.model \in Range(Listed) \cap filter /\ m = Listed[row.rank]
       /\ row.formats = FormatChips(reports[row.model]) /\ RowAgrees(row, reports[row.model])
  BY <1>1, <1>12, <1>15 DEF m, r
<1> QED BY <1>16 DEF m, row

LEMMA RowsAreRight == RadarInv => RowsTellTheirModel
<1> SUFFICES ASSUME RadarInv PROVE RowsTellTheirModel
  OBVIOUS
<1>1. \A row \in Rows : \E i \in Shown : row = RadarRow(i, Listed[i], FeasibilityResults[i])
  BY DEF Rows
<1>2. ASSUME NEW row \in Rows
      PROVE  /\ row.model \in Range(Listed) \cap filter
             /\ Listed[row.rank] = row.model
             /\ row.formats = FormatChips(reports[row.model])
             /\ RowAgrees(row, reports[row.model])
  BY <1>1, <1>2, RowIs
<1>3. ASSUME NEW m \in Range(Listed) \cap filter PROVE \E row \in Rows : row.model = m
  <2>1. PICK i \in DOMAIN Listed : Listed[i] = m
    BY <1>3 DEF Range
  <2>2. i \in Shown
    BY <1>3, <2>1 DEF Shown
  <2> QED BY <2>1, <2>2, RowIs DEF Rows
<1>4. {row.model : row \in Rows} = Range(Listed) \cap filter
  BY <1>2, <1>3
<1> QED BY <1>2, <1>4 DEF RowsTellTheirModel

\* The Radar page: what is shown of a model is its own, whatever arrives, fails or is asked
\* again.
THEOREM RadarSafe == RadarSpec => []RadarInv
<1>1. RadarInit => RadarInv
  BY RadarStarts
<1>2. RadarInv /\ [RadarNext]_radarVars => RadarInv'
  BY RadarKeeps
<1> QED BY <1>1, <1>2, PTL DEF RadarSpec

\* Every row of the Radar's table tells what is known of its own model; its chip, its counts
\* and its bar agree (RadarPage, gauge).
THEOREM RowsAreTrue == RadarSpec => []RowsTellTheirModel
<1>1. RadarInv => RowsTellTheirModel
  BY RowsAreRight
<1> QED BY <1>1, RadarSafe, PTL

==============================================================================
