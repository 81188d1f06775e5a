----------------------------- MODULE RecordForms -----------------------------
(***************************************************************************)
(* The panels that list the records of one kind and edit them in a single  *)
(* form: a list query, mutations to create, update and delete, and the     *)
(* state editingId with the fields of the form.  The panels differ in what *)
(* an answer does to the form, and in whether the page's address names the *)
(* record to edit.                                                         *)
(*                                                                         *)
(* A record is the number of times it was written: 0 before it exists, and *)
(* Gone once it is deleted.                                                *)
(***************************************************************************)
EXTENDS Naturals

CONSTANTS
  Records,
  NoRecord,
  MaxWrites    \* bound: how often a record is written

ASSUME RecordFormsAssumption == NoRecord \notin Records /\ MaxWrites \in Nat

VARIABLES
  panel,
  rows,      \* the server's records
  list,      \* the query cache
  listFetch, \* the list query under way
  form,      \* editingId and the fields
  editUrl,   \* the address's ?edit=
  creating,  \* createMutation
  updating,  \* updateMutation
  deleting,  \* deleteMutation
  missed     \* history: the list may have missed something

formVars ==
  <<panel, rows, list, listFetch, form, editUrl, creating, updating, deleting, missed>>

-----------------------------------------------------------------------------
(* The panels.  composer: the form is hidden until it is opened.  onCreate: *)
(* the success of createMutation empties the fields of the form displayed  *)
(* ("empty"), hides it as well ("hide"), ends an edit ("close"), opens the *)
(* new record ("open"), closes the form on it ("select"), or concerns a    *)
(* form of its own ("apart").  onDelete: the success of deleteMutation     *)
(* clears the form ("all"), ends any edit, that of the record, or none.    *)
(* url: the address names the record edited, and a success drops that name *)
(* or keeps it.  busy: a call keeps the user from another of its kind, one *)
(* to save from another save, or any from everything.                      *)

CredentialsPage ==
  [composer |-> FALSE, onCreate |-> "empty", onDelete |-> "any", url |-> "none", busy |-> "kind"]

\* A form that edits is displayed in any case.
UsersPage == [CredentialsPage EXCEPT !.composer = TRUE]

ScheduledReportsPanel == [CredentialsPage EXCEPT !.composer = TRUE, !.onCreate = "hide"]

NotificationsSettings == [CredentialsPage EXCEPT !.composer = TRUE, !.onCreate = "hide"]

JobTemplatesPanel == [CredentialsPage EXCEPT !.composer = TRUE, !.onCreate = "hide"]

\* form is the one to edit with; that for new ones closes it (openSave).
AuditFlowTemplatesPanel == [CredentialsPage EXCEPT !.composer = TRUE, !.onCreate = "apart"]

JobsPage == [CredentialsPage EXCEPT !.onCreate = "close", !.onDelete = "none", !.url = "dropped"]

\* populateFormFromJob after creation, with the address as it was.
NetworkJobsPage == [JobsPage EXCEPT !.onCreate = "open"]

RemediationPage == [JobsPage EXCEPT !.onDelete = "own", !.url = "kept"]

DirectoryDiscoveryPanel == [CredentialsPage EXCEPT !.onCreate = "close", !.busy = "save"]

\* The answers bring the list; formOpen is the form.
CveFeedPanel ==
  [composer |-> TRUE, onCreate |-> "close", onDelete |-> "all", url |-> "none", busy |-> "all"]

\* The user's playbooks (ScriptEditor has the versioned templates).
PlaybooksPage ==
  [composer |-> TRUE, onCreate |-> "select", onDelete |-> "own", url |-> "none", busy |-> "kind"]

Panels ==
  {CredentialsPage, UsersPage, ScheduledReportsPanel, NotificationsSettings, JobTemplatesPanel,
   AuditFlowTemplatesPanel, JobsPage, NetworkJobsPage, RemediationPage,
   DirectoryDiscoveryPanel, CveFeedPanel, PlaybooksPage}

-----------------------------------------------------------------------------

Gone == MaxWrites + 1

Versions == [Records -> 0..Gone]

Exists(version) == version \in 1..MaxWrites

\* of: the record that the fields were filled from.
RecordForm == [id : Records \cup {NoRecord}, of : Records \cup {NoRecord}, typed : BOOLEAN,
               shown : BOOLEAN]

EmptyForm == [id |-> NoRecord, of |-> NoRecord, typed |-> FALSE, shown |-> ~panel.composer]

Filled(r) == [id |-> r, of |-> r, typed |-> FALSE, shown |-> TRUE]

\* "written": done, and the answer is on its way.  A mutation carries what the form
\* held when it was sent; its answer the list, if the panel takes it from there.
Call == [st : {"idle", "sent", "written"}, id : Records \cup {NoRecord},
         of : Records \cup {NoRecord}, list : Versions]

NoCall == [st |-> "idle", id |-> NoRecord, of |-> NoRecord, list |-> [r \in Records |-> 0]]

Written(call, r) ==
  [call EXCEPT !.st = "written", !.id = r,
               !.list = IF panel = CveFeedPanel THEN rows' ELSE NoCall.list]

Idle == creating = NoCall /\ updating = NoCall /\ deleting = NoCall

ListFetch == [st : {"idle", "sent", "read"}, rows : Versions]

NoListFetch == [st |-> "idle", rows |-> [r \in Records |-> 0]]

FormTypeOK ==
  /\ panel \in Panels
  /\ rows \in Versions
  /\ list \in Versions
  /\ listFetch \in ListFetch
  /\ form \in RecordForm
  /\ editUrl \in Records \cup {NoRecord}
  /\ creating \in Call /\ updating \in Call /\ deleting \in Call
  /\ missed \in BOOLEAN

\* The record there is at first: which one makes no difference.
OldRecord == CHOOSE r \in Records : TRUE

\* The page is opened, by a link to a record perhaps, with its list loaded.
FormInit ==
  /\ panel \in Panels
  /\ rows = [r \in Records |-> IF r = OldRecord THEN 1 ELSE 0]
  /\ editUrl \in IF panel.url = "none" THEN {NoRecord} ELSE Records \cup {NoRecord}
  /\ list = rows
  /\ listFetch = NoListFetch
  /\ form = IF editUrl # NoRecord /\ Exists(rows[editUrl]) THEN Filled(editUrl) ELSE EmptyForm
  /\ creating = NoCall /\ updating = NoCall /\ deleting = NoCall
  /\ missed = FALSE

-----------------------------------------------------------------------------

BugFollowUrl(f, url, known) ==
  IF url # NoRecord /\ Exists(known[url]) THEN Filled(url) ELSE f

\* The effect on the address and the list, after a render with form f: a record it
\* names is opened unless it is open already.
FollowUrl(f, url, known) ==
  IF url # NoRecord /\ f.id # url /\ Exists(known[url]) THEN Filled(url) ELSE f

\* The router commits an address in a transition: there may be a render before that
\* with the new form and the old address, and the effect runs after each.
Render(f, url, known) ==
  /\ editUrl' = url
  /\ list' = known
  /\ \E seen \in {editUrl, url} : form' = FollowUrl(FollowUrl(f, seen, known), url, known)

BugNoInvalidate == UNCHANGED listFetch

\* invalidateQueries: a query under way is started anew.
InvalidateList == listFetch' = [NoListFetch EXCEPT !.st = "sent"]

-----------------------------------------------------------------------------
(* The user.                                                               *)

\* What the panel lets the user do while a call is under way.
MayAct == panel.busy = "all" => Idle

MaySave == MayAct /\ (panel.busy = "save" => creating = NoCall /\ updating = NoCall)

StartEdit(r) ==
  /\ MayAct
  /\ Exists(list[r])
  /\ Render(Filled(r), IF panel.url = "none" THEN NoRecord ELSE r, list)
  /\ UNCHANGED <<panel, rows, listFetch, creating, updating, deleting, missed>>

\* cancelEdit, closeComposer, cancelForm; closeEditor only hides the form.
CancelEdit ==
  /\ MayAct
  /\ form.id # NoRecord \/ (panel.composer /\ form.shown)
  /\ Render(IF panel = PlaybooksPage THEN [form EXCEPT !.shown = FALSE, !.typed = FALSE]
                                    ELSE EmptyForm, NoRecord, list)
  /\ UNCHANGED <<panel, rows, listFetch, creating, updating, deleting, missed>>

\* startCreate, where there is a button for it.
StartCreate ==
  /\ MayAct
  /\ panel.composer
  /\ Render([EmptyForm EXCEPT !.shown = panel.onCreate # "apart"], editUrl, list)
  /\ UNCHANGED <<panel, rows, listFetch, creating, updating, deleting, missed>>

TypeField ==
  /\ MayAct
  /\ form.shown
  /\ form' = [form EXCEPT !.typed = TRUE]
  /\ UNCHANGED <<panel, rows, list, listFetch, editUrl, creating, updating, deleting, missed>>

\* One mutation of a kind at a time.  The audit flow's templates are created from a
\* form of their own.
SubmitCreate ==
  /\ MaySave /\ creating = NoCall
  /\ form.id = NoRecord
  /\ panel.onCreate = "apart" \/ (form.shown /\ form.typed)
  /\ creating' = [NoCall EXCEPT !.st = "sent"]
  /\ UNCHANGED <<panel, rows, list, listFetch, form, editUrl, updating, deleting, missed>>

SubmitUpdate ==
  /\ MaySave /\ updating = NoCall
  /\ form.id # NoRecord /\ form.shown
  /\ updating' = [NoCall EXCEPT !.st = "sent", !.id = form.id, !.of = form.of]
  /\ UNCHANGED <<panel, rows, list, listFetch, form, editUrl, creating, deleting, missed>>

SubmitDelete(r) ==
  /\ MayAct /\ deleting = NoCall
  /\ Exists(list[r])
  /\ deleting' = [NoCall EXCEPT !.st = "sent", !.id = r, !.of = r]
  /\ UNCHANGED <<panel, rows, list, listFetch, form, editUrl, creating, updating, missed>>

-----------------------------------------------------------------------------
(* The server.                                                             *)

ServerCreates(r) ==
  /\ creating.st = "sent" /\ rows[r] = 0
  /\ rows' = [rows EXCEPT ![r] = 1]
  /\ creating' = Written(creating, r)
  /\ UNCHANGED <<panel, list, listFetch, form, editUrl, updating, deleting, missed>>

ServerUpdates ==
  /\ updating.st = "sent"
  /\ rows[updating.id] \in 1..MaxWrites - 1
  /\ rows' = [rows EXCEPT ![updating.id] = @ + 1]
  /\ updating' = Written(updating, updating.id)
  /\ UNCHANGED <<panel, list, listFetch, form, editUrl, creating, deleting, missed>>

ServerDeletes ==
  /\ deleting.st = "sent" /\ Exists(rows[deleting.id])
  /\ rows' = [rows EXCEPT ![deleting.id] = Gone]
  /\ deleting' = Written(deleting, deleting.id)
  /\ UNCHANGED <<panel, list, listFetch, form, editUrl, creating, updating, missed>>

ServerReadsList ==
  /\ listFetch.st = "sent"
  /\ listFetch' = [st |-> "read", rows |-> rows]
  /\ UNCHANGED <<panel, rows, list, form, editUrl, creating, updating, deleting, missed>>

-----------------------------------------------------------------------------
(* Answers.                                                                *)

\* The list is read for other reasons, too: the window gets the focus.
RefetchList ==
  /\ listFetch.st = "idle"
  /\ InvalidateList
  /\ UNCHANGED <<panel, rows, list, form, editUrl, creating, updating, deleting, missed>>

ListAnswered ==
  /\ listFetch.st = "read"
  /\ listFetch' = NoListFetch
  /\ Render(form, editUrl, listFetch.rows)
  /\ UNCHANGED <<panel, rows, creating, updating, deleting, missed>>

ListFailed ==
  /\ listFetch.st # "idle"
  /\ listFetch' = NoListFetch
  /\ missed' = TRUE
  /\ UNCHANGED <<panel, rows, list, form, editUrl, creating, updating, deleting>>

Emptied == [form EXCEPT !.of = NoRecord, !.typed = FALSE]

BugEmptyOnly(r) == Emptied

\* The form after record r was created: the one displayed now, whatever it edits.
AfterCreate(r) ==
  CASE panel.onCreate = "empty" ->
         [Emptied EXCEPT !.shown = ~panel.composer \/ form.id # NoRecord]
    [] panel.onCreate = "hide" -> [Emptied EXCEPT !.shown = FALSE]
    [] panel.onCreate = "close" -> EmptyForm
    [] panel.onCreate = "open" -> Filled(r)
    [] panel.onCreate = "select" -> [form EXCEPT !.id = r, !.shown = FALSE, !.typed = FALSE]
    [] panel.onCreate = "apart" -> form

\* The feed's panel takes the list that comes with the answer (applyStatus), the
\* others read it again.
ThenList(call, known) == IF panel = CveFeedPanel THEN call.list ELSE known

ThenRead == IF panel = CveFeedPanel THEN UNCHANGED listFetch ELSE InvalidateList

\* The pages for jobs put the new one into the list at once; the compliance
\* jobs' (focusCreatedJob) drops the address's record.
CreateSucceeds ==
  LET r == creating.id
      known == IF panel \in {JobsPage, NetworkJobsPage, RemediationPage}
                 THEN [list EXCEPT ![r] = IF Exists(@) THEN @ ELSE 1] ELSE list
      url == IF panel = JobsPage THEN NoRecord ELSE editUrl
  IN  /\ creating.st = "written"
      /\ Render(AfterCreate(r), url, ThenList(creating, known))
      /\ ThenRead
      /\ creating' = NoCall
      /\ UNCHANGED <<panel, rows, updating, deleting, missed>>

\* The form is emptied, whatever it edits now; a playbook stays open.
UpdateSucceeds ==
  /\ updating.st = "written"
  /\ Render(IF panel = PlaybooksPage THEN form ELSE EmptyForm,
            IF panel.url = "kept" THEN editUrl ELSE NoRecord, ThenList(updating, list))
  /\ ThenRead
  /\ updating' = NoCall
  /\ UNCHANGED <<panel, rows, creating, deleting, missed>>

EndsEdit(r) ==
  \/ panel.onDelete = "all"
  \/ panel.onDelete = "any" /\ form.id # NoRecord
  \/ panel.onDelete = "own" /\ form.id = r

DeleteSucceeds ==
  /\ deleting.st = "written"
  /\ Render(IF EndsEdit(deleting.id) THEN EmptyForm ELSE form, editUrl, ThenList(deleting, list))
  /\ ThenRead
  /\ deleting' = NoCall
  /\ UNCHANGED <<panel, rows, creating, updating, missed>>

\* A refusal (a record that is not there any more, a name that is taken), or an
\* answer that is lost.
CallFails ==
  /\ \/ creating # NoCall /\ creating' = NoCall /\ UNCHANGED <<updating, deleting>>
     \/ updating # NoCall /\ updating' = NoCall /\ UNCHANGED <<creating, deleting>>
     \/ deleting # NoCall /\ deleting' = NoCall /\ UNCHANGED <<creating, updating>>
  /\ missed' = (missed \/ \E c \in {creating, updating, deleting} : c.st = "written")
  /\ UNCHANGED <<panel, rows, list, listFetch, form, editUrl>>

UserStep ==
  \/ \E r \in Records : StartEdit(r) \/ SubmitDelete(r)
  \/ CancelEdit \/ StartCreate \/ TypeField \/ SubmitCreate \/ SubmitUpdate

ServerStep ==
  \/ \E r \in Records : ServerCreates(r)
  \/ ServerUpdates \/ ServerDeletes \/ ServerReadsList

SuccessStep == CreateSucceeds \/ UpdateSucceeds \/ DeleteSucceeds

\* Nothing is said of what happens after something was missed.
FormNext == ~missed /\
  (\/ UserStep \/ ServerStep \/ SuccessStep
   \/ RefetchList \/ ListAnswered \/ ListFailed \/ CallFails)

-----------------------------------------------------------------------------
(* Properties.                                                             *)

\* What is sent as an update of a record was typed over that record's own values.
\* (Not in the panels for credentials and users, where the success of a creation
\* empties the form of a record whose edit began in the meantime.)
UpdateNeverCrosses ==
  panel.onCreate # "empty" => updating.of = updating.id

\* Once every call is answered, the list shows what the server has, in whatever
\* order the answers came, unless a query failed or the answer of a write was lost.
\* (Not in the feed's panel, where the list that an answer brings is overwritten by
\* an older one that was under way.)
ListCatchesUp ==
  listFetch = NoListFetch /\ Idle /\ ~missed /\ panel # CveFeedPanel => list = rows

\* What the user has typed is not overwritten by a list that is read again, nor by
\* a call that fails, nor by the address that names the record.  (An address that
\* names another record, which is not in the list yet, opens it over the text.)
TypedTextSurvives ==
  [][(form.typed /\ ~form'.typed /\ editUrl \in {form.id, NoRecord})
       => UserStep \/ SuccessStep]_formVars

=============================================================================
