-------------------------- MODULE OperatorSettings --------------------------
(***************************************************************************)
(* The settings of one operator: bootstrap and the three sections that the *)
(* API keeps as JSON columns (apps/api/src/operators), and the page of the *)
(* console that edits them (ConfigPage with its three forms).              *)
(*                                                                         *)
(* The three updates have one shape: check, read the column, merge what    *)
(* the request names over what was read, write the column back.  A field   *)
(* is a setting with a default or an entry of one of the maps (a custom    *)
(* signal, a template), which has none.                                    *)
(***************************************************************************)
EXTENDS Integers, FiniteSets

CONSTANTS
  Section,   \* priorityWeights, policyConfig, notificationConfig
  Field,
  MapEntry,     \* the fields that are entries of a map
  Checked,   \* the fields whose value the update may refuse
  Other,     \* updates of other users that may be under way at the API
  Null       \* no column, no entry

VARIABLES
  operator,  \* the row: Null before bootstrap, else the three columns
  put,       \* per update: where it is
  form       \* the page: its forms and whether an error replaced it

settingsVars == <<operator, put, form>>

\* The page has at most one update of a section under way.
Put == Section \cup Other

\* What a field may be set to; an entry is there or not.
Value(f) == (IF f \in MapEntry THEN {} ELSE {"default"})
              \cup (IF f \in Checked THEN {"refused"} ELSE {}) \cup {"chosen"}
AllValues == UNION {Value(f) : f \in Field}

\* Null is neither a value, nor a column or a row.
ASSUME SettingsAssumption ==
  /\ Null \notin AllValues
  /\ Null \notin [Field -> AllValues \cup {Null}]
  /\ Null \notin [Section -> {Null} \cup [Field -> AllValues \cup {Null}]]

Defaults == [f \in Field |-> IF f \in MapEntry THEN Null ELSE "default"]

\* parsePriorityWeights, parsePolicyConfig, parseNotificationConfig: missing
\* settings are filled in.
Parse(column) ==
  IF column = Null THEN Defaults
  ELSE [f \in Field |-> IF column[f] = Null THEN Defaults[f] ELSE column[f]]

\* getPriorityWeights: what a reader of a section is told.
Told(s) == Parse(operator[s])

NoUpdate == [pc |-> "idle"]

SettingsInit ==
  /\ operator = Null
  /\ put = [p \in Put |-> NoUpdate]
  /\ form = [config |-> [s \in Section |-> Defaults], error |-> FALSE,
             saving |-> {}]

\* The upsert of bootstrap: the first creates the row without settings, a
\* later one leaves them alone.
Bootstrap ==
  /\ operator' = IF operator = Null THEN [s \in Section |-> Null] ELSE operator
  /\ UNCHANGED <<put, form>>

\* Requests: some fields are named, the rest is left as it is.
Requests ==
  {req \in [Field -> AllValues \cup {Null}] :
     \A f \in Field : req[f] \in Value(f) \cup {Null}}

RefusedBy(req) == \E f \in Checked : req[f] = "refused"

\* The API takes an update.  The check comes first; a request for an operator
\* without a row fails at the read.
BeginUpdate(p, s, req) ==
  /\ put[p] = NoUpdate
  /\ put' = [put EXCEPT ![p] =
       IF RefusedBy(req) \/ operator = Null
         THEN [pc |-> "failed", section |-> s]
         ELSE [pc |-> "merge", section |-> s, req |-> req,
               current |-> Told(s), overtaken |-> FALSE]]

\* Another user's update, of any of the fields.
UpdateByOther(p) ==
  /\ p \in Other
  /\ \E s \in Section, req \in Requests : BeginUpdate(p, s, req)
  /\ UNCHANGED <<operator, form>>

\* Mutation: the request is merged over the defaults.
MergedOverDefaults(u) ==
  [f \in Field |-> IF u.req[f] # Null THEN u.req[f] ELSE Defaults[f]]

Merged(u) ==
  [f \in Field |-> IF u.req[f] # Null THEN u.req[f] ELSE u.current[f]]

\* The column is written; "overtaken" is history: another update of the
\* section wrote between the read and the write of this one.
WriteUpdate(p) ==
  LET u == put[p] IN
  /\ u.pc = "merge"
  /\ operator' = [operator EXCEPT ![u.section] = Merged(u)]
  /\ put' = [q \in Put |->
       IF q = p THEN [pc |-> "done", section |-> u.section, config |-> Merged(u)]
       ELSE IF put[q].pc = "merge" /\ put[q].section = u.section
         THEN [put[q] EXCEPT !.overtaken = TRUE] ELSE put[q]]
  /\ UNCHANGED form

\* The database refuses the read or the write.
UpdateFails(p) ==
  /\ put[p].pc = "merge"
  /\ put' = [put EXCEPT ![p] = [pc |-> "failed", section |-> put[p].section]]
  /\ UNCHANGED <<operator, form>>

\* The answer to someone else, or to a form that is no longer there.
AnswerOther(p) ==
  /\ p \notin form.saving /\ put[p].pc \in {"done", "failed"}
  /\ put' = [put EXCEPT ![p] = NoUpdate]
  /\ UNCHANGED <<operator, form>>

-----------------------------------------------------------------------------
(* The page                                                                *)

\* ConfigPage fills its forms with constants; it asks the API for nothing.
OpenPage ==
  /\ form' = [config |-> [s \in Section |-> Defaults], error |-> FALSE,
              saving |-> {}]
  /\ UNCHANGED <<operator, put>>

EditForm(s, f, v) ==
  /\ ~form.error
  /\ form' = [form EXCEPT !.config[s][f] = v]
  /\ UNCHANGED <<operator, put>>

\* handleSave.  A value the form itself refuses replaces the page by the
\* error; otherwise the whole form is sent and its button disabled.  (The form
\* of the weights leaves its check to the API, with the same end.)
SaveForm(s) ==
  /\ ~form.error /\ s \notin form.saving /\ put[s] = NoUpdate
  /\ IF RefusedBy(form.config[s])
       THEN form' = [form EXCEPT !.error = TRUE] /\ put' = put
       ELSE /\ form' = [form EXCEPT !.saving = @ \cup {s}]
            /\ BeginUpdate(s, s, form.config[s])
  /\ UNCHANGED operator

\* The answer reaches the form.  setConfig(updated) replaces the form, with
\* what was typed meanwhile; an error replaces the page with all its forms.
SaveAnswered(s) ==
  /\ s \in form.saving
  /\ \/ /\ put[s].pc = "done"
        /\ form' = [form EXCEPT !.config[s] = put[s].config, !.saving = @ \ {s}]
     \/ /\ put[s].pc = "failed"
        /\ form' = [form EXCEPT !.error = TRUE, !.saving = @ \ {s}]
  /\ put' = [put EXCEPT ![s] = NoUpdate]
  /\ UNCHANGED operator

SettingsNext ==
  \/ Bootstrap
  \/ \E p \in Put : UpdateByOther(p) \/ WriteUpdate(p) \/ UpdateFails(p)
                      \/ AnswerOther(p)
  \/ OpenPage
  \/ \E s \in Section : SaveForm(s) \/ SaveAnswered(s)
  \/ \E s \in Section, f \in Field : \E v \in Value(f) : EditForm(s, f, v)

SettingsSpec == SettingsInit /\ [][SettingsNext]_settingsVars

-----------------------------------------------------------------------------
(* What is true of it                                                      *)

SettingsTypeOK ==
  /\ operator = Null \/
       operator \in [Section -> {Null} \cup [Field -> AllValues \cup {Null}]]
  /\ \A p \in Put : put[p].pc \in {"idle", "merge", "done", "failed"}
  /\ form.config \in [Section -> [Field -> AllValues \cup {Null}]]
  /\ form.error \in BOOLEAN /\ form.saving \subseteq Section

\* After an update that no other one overtook, readers are told what it says
\* of the fields it names, and of all others what they were told before; the
\* other sections and a bootstrap are not in its way.
LoneUpdateIsExact ==
  [][\A p \in Put :
       put[p].pc = "merge" /\ put'[p].pc = "done" /\ ~put[p].overtaken =>
         \A s \in Section, f \in Field :
           Told(s)'[f] = (IF s = put[p].section /\ put[p].req[f] # Null
                            THEN put[p].req[f] ELSE Told(s)[f])]_settingsVars
=============================================================================
