----------------------------- MODULE FormEditor -----------------------------
(***************************************************************************)
(* What the controls of the dataset editor do to its form (CaseEditor,     *)
(* AssertionsEditor), down to the case that is saved and opened again.     *)
(* The exchange with the server is DatasetEditor's.                        *)
(***************************************************************************)
EXTENDS CaseForm

CONSTANTS IdTexts,        \* what may be typed as an id
          Texts,          \* what may be typed in a text field
          SchemaTexts,    \* of "", "object", "array", "garbage"
          ToolNames,      \* the registered tools
          MaxMessages,    \* bound: rows of messages
          MaxAssertions,  \* bound: rows of assertions
          MaxFilled       \* bound: fields that differ from an empty form's

(* No text is the value that stands for an absent one. *)
ASSUME FormAssumption == NoValue \notin Texts \cup SchemaTexts

VARIABLE form           \* useState<CaseFormState>

FormInit == form = EmptyForm("c")

Sets(newForm) ==
  /\ Cardinality({f \in DOMAIN newForm : newForm[f] # EmptyForm("c")[f]}) <= MaxFilled
  /\ form' = newForm

EditHead ==
  \/ \E t \in IdTexts : Sets([form EXCEPT !.id = t])
  \/ \E t \in {"", "c"} : Sets([form EXCEPT !.category = t])
  \/ \E t \in {<<>>, <<"x", "">>} : Sets([form EXCEPT !.tags = t])

EditTexts ==
  \/ \E t \in Texts : \/ Sets([form EXCEPT !.systemPrompt = t])
                      \/ Sets([form EXCEPT !.judgeCriteria = t])
  \/ \E t \in SchemaTexts : Sets([form EXCEPT !.outputSchema = t])

(* A message can be removed when another one is left. *)
MessageRows == [i \in DOMAIN form.messages |-> [removable |-> Len(form.messages) > 1]]

UpdateMessage ==
  \E i \in DOMAIN form.messages :
    \/ \E r \in {"user", "assistant"} : Sets([form EXCEPT !.messages[i].role = r])
    \/ \E t \in Texts : Sets([form EXCEPT !.messages[i].content = t])

AddMessage ==
  /\ Len(form.messages) < MaxMessages
  /\ Sets([form EXCEPT !.messages = Append(@, [role |-> "user", content |-> ""])])

RemoveMessage ==
  \E i \in DOMAIN form.messages :
    /\ MessageRows[i].removable
    /\ Sets([form EXCEPT !.messages = RemoveAt(@, i)])

(* The argument's input is disabled when the type takes none. *)
AssertionRows ==
  [i \in DOMAIN form.assertions |-> [disabled |-> ~NeedsArgument(form.assertions[i].type)]]

(* What the argument held stays in the form when the type changes. *)
UpdateAssertion ==
  \E i \in DOMAIN form.assertions :
    \/ \E type \in AssertionTypes : Sets([form EXCEPT !.assertions[i].type = type])
    \/ /\ ~AssertionRows[i].disabled
       /\ \E t \in Texts : Sets([form EXCEPT !.assertions[i].argument = t])

AddAssertion ==
  /\ Len(form.assertions) < MaxAssertions
  /\ Sets([form EXCEPT !.assertions = Append(@, [type |-> "schema_valid", argument |-> ""])])

RemoveAssertion ==
  \E i \in DOMAIN form.assertions : Sets([form EXCEPT !.assertions = RemoveAt(@, i)])

Checked(name) == name \in Range(form.expectedTools)

ToggleTool(name) ==
  Sets([form EXCEPT !.expectedTools =
          IF Checked(name) THEN Kept(@, {i \in DOMAIN @ : @[i] # name}) ELSE Append(@, name)])

(* handleSave; a form that is saved is opened again from the case it was   *)
(* saved as.                                                               *)
SaveForm ==
  /\ FormErrors(form) = {}
  /\ Sets(CaseToForm(FormToCase(form)))

FormNext ==
  \/ EditHead \/ EditTexts \/ UpdateMessage \/ AddMessage \/ RemoveMessage
  \/ UpdateAssertion \/ AddAssertion \/ RemoveAssertion
  \/ \E name \in ToolNames : ToggleTool(name)
  \/ SaveForm

FormSpec == FormInit /\ [][FormNext]_form

Forms ==
  [id : IdTexts \cup {""}, category : {"", "c"}, tags : Seq({"x", ""}),
   messages : Seq([role : {"user", "assistant"}, content : Texts \cup {""}]),
   systemPrompt : Texts \cup {""}, judgeCriteria : Texts \cup {""},
   outputSchema : SchemaTexts \cup {""}, expectedTools : Seq(ToolNames),
   assertions : Seq([type : AssertionTypes, argument : Texts \cup {""}])]

FormTypeOK == form \in Forms

(* ---- properties ------------------------------------------------------- *)

(* A form without errors is saved as a case the evaluation can run: an id  *)
(* the server takes, no blank message, an argument exactly where one is    *)
(* needed, under the key its type reads.  Opening that case and saving it  *)
(* untouched writes it back as it was, and its row in the list has a       *)
(* preview (testCaseForm).                                                 *)
SavedCasesSurviveReopening ==
  FormErrors(form) = {} =>
    LET c == FormToCase(form)
    IN /\ c.id \notin BadIds /\ c.category # ""
       /\ FormErrors(CaseToForm(c)) = {} /\ FormToCase(CaseToForm(c)) = c
       /\ Trim(FirstUserMessage(c)) # "" /\ MatchesSearch(c, c.id)
       /\ \A i \in DOMAIN c.assertions :
            LET a == c.assertions[i]
                used == {v \in {a.value, a.pattern, a.name} : v # NoValue}
            IN IF NeedsArgument(a.type) THEN \E v \in used : v # "" ELSE used = {}
       /\ ("checks" \in CaseBadges(c)) <=> form.assertions # <<>>

=============================================================================
