------------------------------ MODULE CaseForm ------------------------------
(***************************************************************************)
(* The dataset editor's form and its conversion from and to a test case    *)
(* (testCaseForm).                                                         *)
(*                                                                         *)
(* A text is "", white space only, or one of a few texts; the schema's     *)
(* text is empty, a JSON object, other JSON, or not JSON.  Tags are the    *)
(* texts between the commas.                                               *)
(***************************************************************************)
EXTENDS Arrays, SequencesExt

Blank == "blank"                                  \* white space only
Trim(text) == IF text = Blank THEN "" ELSE text
Filled(seq) == Kept(seq, {i \in DOMAIN seq : Trim(seq[i]) # ""})

BadIds == {"", Blank, "a/b"}                      \* what ID_PATTERN refuses

AssertionTypes == {"schema_valid", "contains", "regex", "tool_called",
                   "structured_output_first_try", "native_tool_calling",
                   "json_parse_success"}
NeedsArgument(type) == type \in {"contains", "regex", "tool_called"}

NoValue == "null"

EmptyForm(category) ==
  [id |-> "", category |-> category, tags |-> <<>>,
   messages |-> <<[role |-> "user", content |-> ""]>>, systemPrompt |-> "",
   judgeCriteria |-> "", outputSchema |-> "", expectedTools |-> <<>>, assertions |-> <<>>]

Else(value, other) == IF value = NoValue THEN other ELSE value   \* value ?? other
OrEmpty(value) == Else(value, "")
Argument(a) == Else(a.value, Else(a.pattern, OrEmpty(a.name)))

CaseToForm(c) ==
  [id |-> c.id, category |-> c.category, tags |-> c.tags, messages |-> c.messages,
   systemPrompt |-> OrEmpty(c.system_prompt), judgeCriteria |-> OrEmpty(c.judge),
   outputSchema |-> OrEmpty(c.output_schema), expectedTools |-> c.expected_tools,
   assertions |-> [i \in DOMAIN c.assertions |->
                     [type |-> c.assertions[i].type, argument |-> Argument(c.assertions[i])]]]

DuplicateForm(form) ==
  [form EXCEPT !.id = IF form.id = "" THEN "" ELSE form.id \o "-copy"]

(* Mutant: the argument is kept whatever the type. *)
SavedAssertionWithArgument(a) ==
  LET key(type) == IF a.type = type THEN Trim(a.argument) ELSE NoValue
  IN [type |-> a.type, value |-> IF a.argument = "" THEN NoValue ELSE Trim(a.argument),
      pattern |-> key("regex"), name |-> key("tool_called")]

(* What an assertion is saved as: its argument under the key of its type.  *)
SavedAssertion(a) ==
  LET key(type) == IF a.type = type THEN Trim(a.argument) ELSE NoValue
  IN [type |-> a.type, value |-> key("contains"), pattern |-> key("regex"),
      name |-> key("tool_called")]

SavedMessages(form) ==
  Kept(form.messages, {i \in DOMAIN form.messages : Trim(form.messages[i].content) # ""})

FormErrors(form) ==
  {e \in {"id", "category", "messages", "schema"} :
     CASE e = "id"       -> Trim(form.id) \in BadIds
       [] e = "category" -> Trim(form.category) = ""
       [] e = "messages" -> SavedMessages(form) = <<>>
       [] e = "schema"   -> form.outputSchema \in {"array", "garbage"}}
  \cup {<<"assertion", i>> : i \in {j \in DOMAIN form.assertions :
          NeedsArgument(form.assertions[j].type) /\ Trim(form.assertions[j].argument) = ""}}

(* The case to save; none when there are errors. *)
FormToCase(form) ==
  LET orNull(text) == IF Trim(text) = "" THEN NoValue ELSE Trim(text)
  IN [id |-> Trim(form.id), category |-> Trim(form.category), tags |-> Filled(form.tags),
      messages |-> SavedMessages(form), system_prompt |-> orNull(form.systemPrompt),
      judge |-> orNull(form.judgeCriteria), output_schema |-> orNull(form.outputSchema),
      expected_tools |-> form.expectedTools,
      assertions |-> [i \in DOMAIN form.assertions |-> SavedAssertion(form.assertions[i])]]

CaseBadges(c) ==
  {b \in {"schema", "judge", "tools", "checks"} :
     CASE b = "schema" -> c.output_schema # NoValue
       [] b = "judge"  -> c.judge # NoValue
       [] b = "tools"  -> c.expected_tools # <<>>
       [] b = "checks" -> c.assertions # <<>>}

FirstUserMessage(c) ==
  LET said == {i \in DOMAIN c.messages : c.messages[i].role = "user"}
      first == IF said = {} THEN 1 ELSE CHOOSE i \in said : \A j \in said : i <= j
  IN c.messages[first].content

(* "includes" is equality here: a query is one of the texts. *)
MatchesSearch(c, query) ==
  \/ Trim(query) = ""
  \/ query \in {c.id, FirstUserMessage(c)} \cup Range(c.tags)
  \/ \E i \in DOMAIN c.assertions : c.assertions[i].type = query

=============================================================================
