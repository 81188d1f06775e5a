------------------------ MODULE ConsoleEditing_proofs ------------------------
(***************************************************************************)
(* What the steps of the editing views keep: script editors, forms over    *)
(* lists of records, and the schedule picker, each on its own.             *)
(* WebConsole_proofs puts them together.                                   *)
(***************************************************************************)
EXTENDS ScriptEditor, RecordForms, SchedulePicker, TLAPS

-----------------------------------------------------------------------------
(* The script editors.                                                     *)

OwnText(s, text) == text = NoText \/ text.of = s

\* Texts stay with their scripts in the server, in the cache, on the way to it, in
\* the editor once the script's text was there, and in a save.
TextsAreOwn ==
  /\ \A s \in Scripts :
       /\ stored[s].of = s
       /\ OwnText(s, fetched[s])
       /\ fetching[s].st = "read" => fetching[s].text.of = s
       /\ editorKind = "playbook" => fetched[s] # NoText
  /\ viewing # NoScript /\ fetched[viewing] # NoText => draft.of = viewing
  /\ viewing # NoScript /\ isDirty => draft.of = viewing /\ fetched[viewing] # NoText
  /\ saving.st # "idle" => saving.script \in Scripts /\ saving.text.of = saving.script

EditorInv == EditorTypeOK /\ (~mixedUp => TextsAreOwn)

LEMMA EditorInitial == EditorInit => EditorInv
<1> SUFFICES ASSUME EditorInit
             PROVE  EditorInv
  OBVIOUS
<1> USE ScriptEditorAssumption DEF EditorInit, Text, NoText, Fetch, NoFetch, Save, NoSave
<1>1. stored \in [Scripts -> Text] /\ \A s \in Scripts : stored[s] = [of |-> s, rev |-> 0]
  OBVIOUS
<1>2. fetched \in [Scripts -> Text \cup {NoText}]
  BY <1>1
<1>3. fetching \in [Scripts -> Fetch] /\ \A s \in Scripts : fetching[s].st = "idle"
  OBVIOUS
<1>4. \A s \in Scripts : OwnText(s, fetched[s]) /\ (editorKind = "playbook" => fetched[s] # NoText)
  BY <1>1 DEF OwnText
<1>5. saving \in Save /\ saving.st = "idle"
  OBVIOUS
<1> QED
  BY <1>1, <1>2, <1>3, <1>4, <1>5 DEF EditorInv, EditorTypeOK, TextsAreOwn

LEMMA EditorStep == EditorInv /\ EditorNext => EditorInv'
<1> SUFFICES ASSUME EditorInv, EditorNext
             PROVE  EditorInv'
  OBVIOUS
<1> USE ScriptEditorAssumption DEF EditorInv, EditorTypeOK, Text, NoText, Fetch, NoFetch, Save, NoSave
<1>0. ~mixedUp /\ TextsAreOwn
  BY DEF EditorNext
<1>1. ASSUME NEW s \in Scripts, ServerReads(s)
      PROVE  EditorInv'
  BY <1>0, <1>1 DEF ServerReads, TextsAreOwn, OwnText
<1>2. ASSUME NEW s \in Scripts, FetchAnswered(s)
      PROVE  EditorInv'
  <2>1. fetching[s].text \in Text \cup {NoText} /\ fetching[s].text.of = s /\ fetching[s].text # NoText
    BY <1>0, <1>2 DEF FetchAnswered, TextsAreOwn
  <2>2. EditorTypeOK'
    BY <1>2, <2>1 DEF FetchAnswered, Loaded
  <2>3. CASE viewing = s
    BY <1>0, <1>2, <2>1, <2>2, <2>3 DEF FetchAnswered, Loaded, TextsAreOwn, OwnText
  <2>4. CASE viewing # s
    BY <1>0, <1>2, <2>1, <2>2, <2>4 DEF FetchAnswered, Loaded, TextsAreOwn, OwnText
  <2> QED
    BY <2>3, <2>4
<1>3. ASSUME NEW s \in Scripts, FetchFailed(s)
      PROVE  EditorInv'
  BY <1>0, <1>3 DEF FetchFailed, TextsAreOwn, OwnText
<1>4. ASSUME NEW s \in Scripts, OpenScript(s)
      PROVE  EditorInv'
  <2>1. fetching' \in [Scripts -> Fetch]
        /\ \A x \in Scripts : fetching'[x].st = "read" => fetching'[x] = fetching[x]
    BY <1>4 DEF OpenScript, Refetch
  <2>2. draft' \in Text \cup {NoText} /\ isDirty' \in BOOLEAN
    BY <1>4 DEF OpenScript, OpenEmpty, CarryDraft
  <2>3. fetched[s] # NoText => draft'.of = s
    BY <1>0, <1>4 DEF OpenScript, OpenEmpty, CarryDraft, TextsAreOwn, OwnText
  <2>4. ~mixedUp' => ~isDirty'
    BY <1>4 DEF OpenScript, OpenEmpty, CarryDraft
  <2>5. /\ viewing' = s
        /\ mixedUp' \in BOOLEAN
        /\ UNCHANGED <<editorKind, stored, fetched, saving>>
    BY <1>4 DEF OpenScript
  <2> QED
    BY <1>0, <2>1, <2>2, <2>3, <2>4, <2>5 DEF TextsAreOwn
<1>5. CASE WindowFocus
  BY <1>0, <1>5 DEF WindowFocus, Refetch, TextsAreOwn, OwnText
<1>6. CASE CloseScript
  BY <1>0, <1>6 DEF CloseScript, TextsAreOwn, OwnText
<1>7. CASE TypeText
  <2>1. draft.of = viewing /\ viewing \in Scripts
    BY <1>0, <1>7 DEF TypeText, TextsAreOwn
  <2>2. draft \in Text
    BY <2>1
  <2>3. draft.rev + 1 \in 0..MaxRevisions
    BY <1>7, <2>2 DEF TypeText
  <2>4. draft' \in Text /\ draft'.of = viewing
    BY <1>7, <2>1, <2>2, <2>3 DEF TypeText
  <2> QED
    BY <1>0, <1>7, <2>4 DEF TypeText, TextsAreOwn
<1>8. CASE SaveScript
  BY <1>0, <1>8 DEF SaveScript, CanSave, TextsAreOwn, OwnText
<1>9. CASE ServerWrites
  BY <1>0, <1>9 DEF ServerWrites, TextsAreOwn, OwnText
<1>10. CASE SaveAnswered
  <2>1. /\ saving \in Save /\ saving.script \in Scripts /\ saving.text.of = saving.script
        /\ saving.text \in Text \cup {NoText}
    BY <1>0, <1>10 DEF SaveAnswered, TextsAreOwn
  <2>2. CASE ScriptSaved
    <3>1. fetched' \in [Scripts -> Text \cup {NoText}]
      BY <2>1, <2>2 DEF ScriptSaved, SetQueryData
    <3>2. EditorTypeOK'
      BY <1>10, <2>1, <2>2, <3>1 DEF SaveAnswered, ScriptSaved
    <3>3. ASSUME ~mixedUp'
          PROVE  TextsAreOwn'
      <4>1. viewing = saving.script
        BY <1>10, <3>3 DEF SaveAnswered
      <4>2. fetched' = [fetched EXCEPT ![viewing] = saving.text]
        BY <2>1, <2>2, <4>1 DEF ScriptSaved, SetQueryData
      <4> QED
        BY <1>0, <1>10, <2>1, <2>2, <4>1, <4>2 DEF SaveAnswered, ScriptSaved, TextsAreOwn, OwnText
    <3> QED
      BY <3>2, <3>3
  <2>3. CASE PlaybookSaved
    <3>1. EditorTypeOK'
      BY <1>10, <2>1, <2>3 DEF SaveAnswered, PlaybookSaved
    <3>2. ASSUME ~mixedUp'
          PROVE  TextsAreOwn'
      <4>1. viewing = saving.script
        BY <1>10, <3>2 DEF SaveAnswered
      <4> QED
        BY <1>0, <1>10, <2>1, <2>3, <4>1 DEF SaveAnswered, PlaybookSaved, TextsAreOwn, OwnText
    <3> QED
      BY <3>1, <3>2
  <2> QED
    BY <1>10, <2>2, <2>3 DEF SaveAnswered
<1>11. CASE SaveFailed
  BY <1>0, <1>11 DEF SaveFailed, TextsAreOwn, OwnText
<1> QED
  BY <1>1, <1>2, <1>3, <1>4, <1>5, <1>6, <1>7, <1>8, <1>9, <1>10, <1>11 DEF EditorNext

\* While nothing was mixed up, the cache has what the server has, save for the script
\* whose save was written and is not answered yet, and a clean editor shows the cache.
CacheIsCurrent ==
  /\ \A s \in Scripts :
       \/ fetched[s] = NoText \/ fetched[s] = stored[s]
       \/ saving.st = "written" /\ saving.script = s
  /\ saving.st = "written" => stored[saving.script] = saving.text
  /\ viewing # NoScript /\ fetched[viewing] # NoText /\ ~isDirty => draft = fetched[viewing]

CleanInv == ~mixedUp /\ editorKind # "playbook" => CacheIsCurrent

LEMMA CleanInitial == EditorInit => CleanInv
  BY DEF EditorInit, CleanInv, CacheIsCurrent, NoSave

LEMMA CleanStep == EditorInv /\ CleanInv /\ EditorNext => CleanInv'
<1> SUFFICES ASSUME EditorInv, CleanInv, EditorNext, ~mixedUp', editorKind' # "playbook"
             PROVE  CacheIsCurrent'
  BY DEF CleanInv
<1> USE ScriptEditorAssumption DEF EditorTypeOK
<1>1. ~mixedUp /\ TextsAreOwn /\ EditorTypeOK
  BY DEF EditorNext, EditorInv
<1>2. editorKind # "playbook" /\ CacheIsCurrent
  BY <1>1
  DEF EditorNext, CleanInv, ServerReads, FetchAnswered, FetchFailed, OpenScript, WindowFocus,
      CloseScript, TypeText, SaveScript, ServerWrites, SaveAnswered, SaveFailed
<1>3. ASSUME NEW s \in Scripts, ServerReads(s) \/ FetchFailed(s)
      PROVE  CacheIsCurrent'
  BY <1>2, <1>3 DEF ServerReads, FetchFailed, CacheIsCurrent
<1>4. ASSUME NEW s \in Scripts, FetchAnswered(s)
      PROVE  CacheIsCurrent'
  <2>1. fetching[s].text = stored[s] /\ stored[s] # NoText
    <3>1. fetching[s].text = stored[s]
      BY <1>1, <1>4 DEF FetchAnswered
    <3>2. stored[s].of # NoText.of
      BY <1>1 DEF TextsAreOwn, NoText
    <3> QED
      BY <3>1, <3>2
  <2>2. fetched' = [fetched EXCEPT ![s] = stored[s]] /\ UNCHANGED <<stored, viewing, saving>>
    BY <1>4, <2>1 DEF FetchAnswered
  <2>3. Loaded(s, stored[s])
    BY <1>4, <2>1 DEF FetchAnswered
  <2>4. CASE viewing = s
    BY <1>1, <1>2, <2>2, <2>3, <2>4 DEF Loaded, CacheIsCurrent
  <2>5. CASE viewing # s
    BY <1>1, <1>2, <2>2, <2>3, <2>5 DEF Loaded, CacheIsCurrent
  <2> QED
    BY <2>4, <2>5
<1>5. ASSUME NEW s \in Scripts, OpenScript(s)
      PROVE  CacheIsCurrent'
  BY <1>2, <1>5 DEF OpenScript, OpenEmpty, CarryDraft, CacheIsCurrent
<1>6. CASE WindowFocus \/ CloseScript \/ TypeText
  BY <1>2, <1>6 DEF WindowFocus, CloseScript, TypeText, CacheIsCurrent
<1>7. CASE SaveScript
  BY <1>2, <1>7 DEF SaveScript, CanSave, NoSave, CacheIsCurrent
<1>8. CASE ServerWrites
  <2>1. saving.script \in Scripts
    BY <1>1, <1>8 DEF ServerWrites, TextsAreOwn
  <2>2. saving'.st = "written" /\ saving'.script = saving.script /\ saving'.text = saving.text
    BY <1>1, <1>8 DEF ServerWrites, Save
  <2> QED
    BY <1>1, <1>2, <1>8, <2>1, <2>2 DEF ServerWrites, CacheIsCurrent
<1>9. CASE SaveAnswered
  <2>1. viewing = saving.script /\ saving.script \in Scripts
    BY <1>1, <1>9 DEF SaveAnswered, TextsAreOwn
  <2>2. ScriptSaved
    BY <1>2, <1>9 DEF SaveAnswered, PlaybookSaved
  <2>3. fetched' = [fetched EXCEPT ![viewing] = saving.text]
    BY <2>1, <2>2 DEF ScriptSaved, SetQueryData
  <2>4. saving.text = stored[viewing] /\ saving'.st = "idle"
    BY <1>2, <1>9, <2>1 DEF SaveAnswered, CacheIsCurrent, NoSave
  <2> QED
    BY <1>1, <1>2, <1>9, <2>1, <2>2, <2>3, <2>4 DEF SaveAnswered, ScriptSaved, CacheIsCurrent
<1>10. CASE SaveFailed
  BY <1>1, <1>2, <1>10 DEF SaveFailed, NoSave, CacheIsCurrent
<1> QED
  BY <1>3, <1>4, <1>5, <1>6, <1>7, <1>8, <1>9, <1>10 DEF EditorNext

LEMMA CleanIsSaved == EditorInv /\ CleanInv => CleanMeansSaved
  BY DEF EditorInv, EditorTypeOK, CleanInv, CacheIsCurrent, CleanMeansSaved, NoSave

-----------------------------------------------------------------------------
(* The forms.                                                              *)

\* A form that is displayed holds the values of the record it will be saved to.
FormsAreOwn ==
  panel.onCreate # "empty" =>
    /\ form.shown => form.of = form.id
    /\ updating.of = updating.id

\* A call that was sent is about a record; the record of a creation is known later.
CallsNameRecords ==
  /\ creating.st = "written" => creating.id \in Records
  /\ updating.st # "idle" => updating.id \in Records
  /\ deleting.st # "idle" => deleting.id \in Records

FormInv == FormTypeOK /\ FormsAreOwn /\ CallsNameRecords

LEMMA KindsOfCreation ==
  panel \in Panels => panel.onCreate \in {"empty", "hide", "close", "open", "select", "apart"}
<1>1. /\ CredentialsPage.onCreate = "empty"
      /\ CveFeedPanel.onCreate = "close"
      /\ PlaybooksPage.onCreate = "select"
  BY DEF CredentialsPage, CveFeedPanel, PlaybooksPage
<1>2. /\ UsersPage.onCreate = "empty"
      /\ ScheduledReportsPanel.onCreate = "hide"
      /\ NotificationsSettings.onCreate = "hide"
      /\ JobTemplatesPanel.onCreate = "hide"
      /\ AuditFlowTemplatesPanel.onCreate = "apart"
      /\ DirectoryDiscoveryPanel.onCreate = "close"
  BY DEF CredentialsPage, UsersPage, ScheduledReportsPanel, NotificationsSettings,
         JobTemplatesPanel, AuditFlowTemplatesPanel, DirectoryDiscoveryPanel
<1>3. JobsPage.onCreate = "close"
  BY DEF CredentialsPage, JobsPage
<1>4. NetworkJobsPage.onCreate = "open" /\ RemediationPage.onCreate = "close"
  BY <1>3 DEF CredentialsPage, JobsPage, NetworkJobsPage, RemediationPage
<1> QED
  BY <1>1, <1>2, <1>3, <1>4 DEF Panels

LEMMA FormInitial == FormInit => FormInv
<1> SUFFICES ASSUME FormInit
             PROVE  FormInv
  OBVIOUS
<1>1. rows \in Versions
  BY RecordFormsAssumption DEF FormInit, Versions, Gone
<1>2. editUrl \in Records \cup {NoRecord}
  BY DEF FormInit
<1>3. form \in RecordForm /\ form.of = form.id
  BY <1>2 DEF FormInit, RecordForm, Filled, EmptyForm
<1>4. NoCall \in Call /\ NoListFetch \in ListFetch /\ NoCall.of = NoCall.id /\ NoCall.st = "idle"
  BY RecordFormsAssumption DEF NoCall, Call, Versions, Gone, NoListFetch, ListFetch
<1> QED
  BY <1>1, <1>2, <1>3, <1>4 DEF FormInit, FormInv, FormTypeOK, FormsAreOwn, CallsNameRecords

LEMMA FormStep == FormInv /\ FormNext => FormInv'
<1> SUFFICES ASSUME FormInv, FormNext
             PROVE  FormInv'
  OBVIOUS
<1> USE RecordFormsAssumption
<1> DEFINE Own(f) == f \in RecordForm /\ (panel.onCreate # "empty" /\ f.shown => f.of = f.id)
           OwnCall(c) == c \in Call /\ (panel.onCreate # "empty" => c.of = c.id)
           Rest == /\ rows' \in Versions /\ listFetch' \in ListFetch
                   /\ creating' \in Call /\ OwnCall(updating') /\ deleting' \in Call
                   /\ panel' = panel /\ missed' \in BOOLEAN /\ CallsNameRecords'
<1>1. Own(form) /\ OwnCall(updating) /\ FormTypeOK /\ CallsNameRecords
  BY DEF FormInv, FormTypeOK, FormsAreOwn
<1>2. Own(EmptyForm) /\ \A r \in Records \cup {NoRecord} : Own(Filled(r))
  BY DEF EmptyForm, Filled, RecordForm
<1>3. OwnCall(NoCall) /\ NoCall.st = "idle" /\ NoListFetch \in ListFetch
  BY DEF NoCall, NoListFetch, Call, ListFetch, Versions, Gone
<1>4. ASSUME NEW f, Own(f), NEW url \in Records \cup {NoRecord}, NEW new \in Versions,
             Render(f, url, new), Rest
      PROVE  FormInv'
  <2>1. PICK seen \in {editUrl, url} : form' = FollowUrl(FollowUrl(f, seen, new), url, new)
    BY <1>4 DEF Render
  <2>2. seen \in Records \cup {NoRecord}
    BY <1>1, <1>4, <2>1 DEF FormTypeOK
  <2>3. Own(FollowUrl(f, seen, new))
    BY <1>2, <1>4, <2>2 DEF FollowUrl
  <2>4. Own(form') /\ editUrl' = url /\ list' = new
    BY <1>2, <1>4, <2>1, <2>3 DEF Render, FollowUrl
  <2> QED
    BY <1>1, <1>4, <2>4 DEF FormInv, FormTypeOK, FormsAreOwn
<1>5. ASSUME Own(form'), UNCHANGED <<list, editUrl>>, Rest
      PROVE  FormInv'
  BY <1>1, <1>5 DEF FormInv, FormTypeOK, FormsAreOwn
<1>6. ASSUME InvalidateList
      PROVE  listFetch' \in ListFetch
  BY <1>6 DEF InvalidateList, NoListFetch, ListFetch, Versions, Gone
<1>7. ASSUME NEW call \in Call, NEW r \in Records, rows' \in Versions
      PROVE  /\ Written(call, r) \in Call /\ Written(call, r).id = r
             /\ OwnCall(call) /\ call.id = r => OwnCall(Written(call, r))
  BY <1>3, <1>7 DEF Written, Call, NoCall
<1> DEFINE Keep == UNCHANGED <<panel, rows, listFetch, creating, updating, deleting, missed>>
<1>8. ASSUME Keep PROVE Rest
  BY <1>1, <1>8 DEF FormTypeOK, CallsNameRecords
<1>9. ASSUME NEW r \in Records, StartEdit(r)
      PROVE  FormInv'
  <2>1. Render(Filled(r), IF panel.url = "none" THEN NoRecord ELSE r, list) /\ Keep
    BY <1>9 DEF StartEdit
  <2> QED
    BY <1>1, <1>2, <1>4, <1>8, <2>1 DEF FormTypeOK
<1>10. CASE CancelEdit
  <2> DEFINE f == IF panel = PlaybooksPage THEN [form EXCEPT !.shown = FALSE, !.typed = FALSE]
                                           ELSE EmptyForm
  <2>1. Render(f, NoRecord, list) /\ Keep
    BY <1>10 DEF CancelEdit
  <2>2. Own(f)
    BY <1>1, <1>2 DEF RecordForm
  <2> HIDE DEF f
  <2> QED
    BY <1>1, <1>4, <1>8, <2>1, <2>2 DEF FormTypeOK
<1>11. CASE StartCreate
  <2> DEFINE f == [EmptyForm EXCEPT !.shown = panel.onCreate # "apart"]
  <2>1. Render(f, editUrl, list) /\ Keep
    BY <1>11 DEF StartCreate
  <2>2. Own(f)
    BY DEF EmptyForm, RecordForm
  <2> HIDE DEF f
  <2> QED
    BY <1>1, <1>4, <1>8, <2>1, <2>2 DEF FormTypeOK
<1>12. CASE TypeField
  <2>1. Own(form') /\ Keep /\ UNCHANGED <<list, editUrl>>
    BY <1>1, <1>12 DEF TypeField, RecordForm
  <2> QED
    BY <1>5, <1>8, <2>1
<1>13. CASE SubmitCreate
  <2>1. creating' \in Call /\ creating'.st = "sent"
    BY <1>3, <1>13 DEF SubmitCreate, NoCall, Call
  <2> QED
    BY <1>1, <1>5, <1>13, <2>1 DEF SubmitCreate, FormTypeOK, CallsNameRecords
<1>14. CASE SubmitUpdate
  <2>1. OwnCall(updating') /\ updating'.id \in Records
    BY <1>1, <1>3, <1>14 DEF SubmitUpdate, NoCall, Call, RecordForm
  <2> QED
    BY <1>1, <1>5, <1>14, <2>1 DEF SubmitUpdate, FormTypeOK, CallsNameRecords
<1>15. ASSUME NEW r \in Records, SubmitDelete(r)
       PROVE  FormInv'
  <2>1. deleting' \in Call /\ deleting'.id \in Records
    BY <1>3, <1>15 DEF SubmitDelete, NoCall, Call
  <2> QED
    BY <1>1, <1>5, <1>15, <2>1 DEF SubmitDelete, FormTypeOK, CallsNameRecords
<1>16. ASSUME NEW r \in Records, ServerCreates(r)
       PROVE  FormInv'
  <2>1. rows' \in Versions
    BY <1>1, <1>16 DEF ServerCreates, FormTypeOK, Versions, Gone
  <2>2. creating' \in Call /\ creating'.id \in Records
    BY <1>1, <1>7, <1>16, <2>1 DEF ServerCreates, FormTypeOK
  <2> QED
    BY <1>1, <1>5, <1>16, <2>1, <2>2 DEF ServerCreates, FormTypeOK, CallsNameRecords
<1>17. CASE ServerUpdates
  <2>1. updating.id \in Records
    BY <1>1, <1>17 DEF ServerUpdates, CallsNameRecords
  <2>2. rows' \in Versions
    BY <1>1, <1>17, <2>1 DEF ServerUpdates, FormTypeOK, Versions, Gone
  <2>3. OwnCall(updating') /\ updating'.id \in Records
    BY <1>1, <1>7, <1>17, <2>1, <2>2 DEF ServerUpdates
  <2> QED
    BY <1>1, <1>5, <1>17, <2>2, <2>3 DEF ServerUpdates, FormTypeOK, CallsNameRecords
<1>18. CASE ServerDeletes
  <2>1. deleting.id \in Records
    BY <1>1, <1>18 DEF ServerDeletes, CallsNameRecords
  <2>2. Gone \in 0..Gone /\ rows \in Versions
    BY <1>1 DEF FormTypeOK, Gone
  <2>3. rows' \in Versions
    BY <1>18, <2>1, <2>2 DEF ServerDeletes, Versions
  <2>4. deleting' \in Call /\ deleting'.id \in Records
    BY <1>1, <1>7, <1>18, <2>1, <2>3 DEF ServerDeletes, FormTypeOK
  <2> QED
    BY <1>1, <1>5, <1>18, <2>3, <2>4 DEF ServerDeletes, FormTypeOK, CallsNameRecords
<1>19. CASE ServerReadsList
  <2>1. listFetch' \in ListFetch
    BY <1>1, <1>19 DEF ServerReadsList, FormTypeOK, ListFetch
  <2> QED
    BY <1>1, <1>5, <1>19, <2>1 DEF ServerReadsList, FormTypeOK, CallsNameRecords
<1>20. CASE RefetchList
  BY <1>1, <1>5, <1>6, <1>20 DEF RefetchList, FormTypeOK, CallsNameRecords
<1>21. CASE ListAnswered
  <2>1. listFetch.rows \in Versions
    BY <1>1 DEF FormTypeOK, ListFetch
  <2> QED
    BY <1>1, <1>3, <1>4, <1>21, <2>1 DEF ListAnswered, FormTypeOK, CallsNameRecords
<1>22. CASE ListFailed
  BY <1>1, <1>3, <1>5, <1>22 DEF ListFailed, FormTypeOK, CallsNameRecords
<1>23. CASE CallFails
  BY <1>1, <1>3, <1>5, <1>23 DEF CallFails, FormTypeOK, CallsNameRecords
<1>24. ASSUME NEW call \in Call, NEW new \in Versions
       PROVE  ThenList(call, new) \in Versions /\ (ThenRead => listFetch' \in ListFetch)
  BY <1>1, <1>6, <1>24 DEF ThenList, ThenRead, Call, FormTypeOK
<1>25. CASE CreateSucceeds
  <2> DEFINE r == creating.id
             new == ThenList(creating, IF panel \in {JobsPage, NetworkJobsPage, RemediationPage}
                      THEN [list EXCEPT ![r] = IF Exists(@) THEN @ ELSE 1] ELSE list)
             url == IF panel = JobsPage THEN NoRecord ELSE editUrl
  <2>1. Render(AfterCreate(r), url, new) /\ ThenRead /\ creating' = NoCall
        /\ UNCHANGED <<panel, rows, updating, deleting, missed>>
    BY <1>25 DEF CreateSucceeds
  <2>2. r \in Records /\ url \in Records \cup {NoRecord}
    BY <1>1, <1>25 DEF CreateSucceeds, FormTypeOK, CallsNameRecords
  <2>3. new \in Versions
    <3>1. [list EXCEPT ![r] = IF Exists(@) THEN @ ELSE 1] \in Versions
      BY <1>1, <2>2 DEF FormTypeOK, Versions, Gone
    <3> QED
      BY <1>1, <1>24, <3>1 DEF FormTypeOK
  <2>4. Own(AfterCreate(r))
    BY <1>1, <1>2, <2>2, KindsOfCreation DEF AfterCreate, Emptied, RecordForm, FormTypeOK
  <2>5. Rest
    BY <1>1, <1>3, <1>24, <2>1 DEF FormTypeOK, CallsNameRecords
  <2> HIDE DEF r, new, url
  <2> QED
    BY <1>4, <2>1, <2>2, <2>3, <2>4, <2>5
<1>26. CASE UpdateSucceeds
  <2> DEFINE f == IF panel = PlaybooksPage THEN form ELSE EmptyForm
             url == IF panel.url = "kept" THEN editUrl ELSE NoRecord
  <2>1. Render(f, url, ThenList(updating, list)) /\ ThenRead /\ updating' = NoCall
        /\ UNCHANGED <<panel, rows, creating, deleting, missed>>
    BY <1>26 DEF UpdateSucceeds
  <2>2. Own(f) /\ url \in Records \cup {NoRecord} /\ ThenList(updating, list) \in Versions
    BY <1>1, <1>2, <1>24 DEF FormTypeOK
  <2>3. Rest
    BY <1>1, <1>3, <1>24, <2>1 DEF FormTypeOK, CallsNameRecords
  <2> HIDE DEF f, url
  <2> QED
    BY <1>4, <2>1, <2>2, <2>3
<1>27. CASE DeleteSucceeds
  <2> DEFINE f == IF EndsEdit(deleting.id) THEN EmptyForm ELSE form
  <2>1. Render(f, editUrl, ThenList(deleting, list)) /\ ThenRead /\ deleting' = NoCall
        /\ UNCHANGED <<panel, rows, creating, updating, missed>>
    BY <1>27 DEF DeleteSucceeds
  <2>2. Own(f) /\ ThenList(deleting, list) \in Versions
    BY <1>1, <1>2, <1>24 DEF FormTypeOK
  <2>3. Rest
    BY <1>1, <1>3, <1>24, <2>1 DEF FormTypeOK, CallsNameRecords
  <2> HIDE DEF f
  <2> QED
    BY <1>1, <1>4, <2>1, <2>2, <2>3 DEF FormTypeOK
<1> QED
  BY <1>9, <1>10, <1>11, <1>12, <1>13, <1>14, <1>15, <1>16, <1>17, <1>18, <1>19, <1>20, <1>21, <1>22,
     <1>23, <1>25, <1>26, <1>27
  DEF FormNext, UserStep, ServerStep, SuccessStep

\* A write of record r was made, and the panel does not know yet.
WrittenUnseen(r) == \E c \in {creating, updating, deleting} : c.st = "written" /\ c.id = r

\* What was read, on its way or in the list, is what the server has of every record
\* but those whose write is still to be answered.
ListIsCurrent ==
  listFetch.st # "sent" =>
    \A r \in Records :
      ~WrittenUnseen(r) => rows[r] = IF listFetch.st = "read" THEN listFetch.rows[r] ELSE list[r]

CurrentInv == ~missed /\ panel # CveFeedPanel => ListIsCurrent

LEMMA CurrentInitial == FormInit => CurrentInv
  BY DEF FormInit, CurrentInv, ListIsCurrent, NoListFetch

\* A write makes its record one to be answered; its success asks for the list anew,
\* so that no older answer can be the last.
LEMMA CurrentStep == FormInv /\ CurrentInv /\ FormNext => CurrentInv'
<1> SUFFICES ASSUME FormInv, CurrentInv, FormNext, ~missed', panel' # CveFeedPanel
             PROVE  ListIsCurrent'
  BY DEF CurrentInv
<1>1. FormTypeOK /\ CallsNameRecords /\ ~missed
  BY DEF FormInv, FormNext
<1>2. panel # CveFeedPanel /\ ListIsCurrent
  BY <1>1
  DEF CurrentInv, FormNext, UserStep, ServerStep, SuccessStep, StartEdit, CancelEdit, StartCreate,
      TypeField, SubmitCreate, SubmitUpdate, SubmitDelete, ServerCreates, ServerUpdates,
      ServerDeletes, ServerReadsList, RefetchList, ListAnswered, ListFailed, CreateSucceeds,
      UpdateSucceeds, DeleteSucceeds, CallFails
<1>3. ASSUME UNCHANGED <<rows, list, listFetch>>,
             \A r \in Records : WrittenUnseen(r) => WrittenUnseen(r)'
      PROVE  ListIsCurrent'
  BY <1>2, <1>3 DEF ListIsCurrent
<1>4. ASSUME listFetch'.st = "sent"
      PROVE  ListIsCurrent'
  BY <1>4 DEF ListIsCurrent
<1>5. ASSUME NEW r \in Records, NEW n, rows' = [rows EXCEPT ![r] = n],
             UNCHANGED <<list, listFetch>>, WrittenUnseen(r)',
             \A q \in Records : WrittenUnseen(q) => WrittenUnseen(q)'
      PROVE  ListIsCurrent'
  BY <1>1, <1>2, <1>5 DEF ListIsCurrent, FormTypeOK, Versions
<1>6. CASE UserStep
  <2>1. UNCHANGED <<rows, list, listFetch>>
    BY <1>6 DEF UserStep, StartEdit, CancelEdit, StartCreate, TypeField, SubmitCreate, SubmitUpdate,
                SubmitDelete, Render
  <2>2. /\ creating' = creating \/ creating = NoCall
        /\ updating' = updating \/ updating = NoCall
        /\ deleting' = deleting \/ deleting = NoCall
    BY <1>6 DEF UserStep, StartEdit, CancelEdit, StartCreate, TypeField, SubmitCreate, SubmitUpdate,
                SubmitDelete
  <2>3. \A r \in Records : WrittenUnseen(r) => WrittenUnseen(r)'
    BY <2>2 DEF WrittenUnseen, NoCall
  <2> QED
    BY <1>3, <2>1, <2>3
<1>7. ASSUME NEW r \in Records, ServerCreates(r)
      PROVE  ListIsCurrent'
  <2>1. creating'.st = "written" /\ creating'.id = r
    BY <1>1, <1>7 DEF ServerCreates, Written, FormTypeOK, Call
  <2>2. WrittenUnseen(r)' /\ \A q \in Records : WrittenUnseen(q) => WrittenUnseen(q)'
    BY <1>7, <2>1 DEF ServerCreates, WrittenUnseen
  <2> QED
    BY <1>5, <1>7, <2>2 DEF ServerCreates
<1>8. CASE ServerUpdates
  <2>1. updating'.st = "written" /\ updating'.id = updating.id /\ updating.id \in Records
    BY <1>1, <1>8 DEF ServerUpdates, Written, FormTypeOK, Call, CallsNameRecords
  <2>2. WrittenUnseen(updating.id)' /\ \A q \in Records : WrittenUnseen(q) => WrittenUnseen(q)'
    BY <1>8, <2>1 DEF ServerUpdates, WrittenUnseen
  <2> QED
    BY <1>5, <1>8, <2>1, <2>2 DEF ServerUpdates
<1>9. CASE ServerDeletes
  <2>1. deleting'.st = "written" /\ deleting'.id = deleting.id /\ deleting.id \in Records
    BY <1>1, <1>9 DEF ServerDeletes, Written, FormTypeOK, Call, CallsNameRecords
  <2>2. WrittenUnseen(deleting.id)' /\ \A q \in Records : WrittenUnseen(q) => WrittenUnseen(q)'
    BY <1>9, <2>1 DEF ServerDeletes, WrittenUnseen
  <2> QED
    BY <1>5, <1>9, <2>1, <2>2 DEF ServerDeletes
<1>10. CASE ServerReadsList
  BY <1>10 DEF ServerReadsList, ListIsCurrent
<1>11. CASE RefetchList
  BY <1>4, <1>11 DEF RefetchList, InvalidateList, NoListFetch
<1>12. CASE SuccessStep
  <2>1. ThenRead
    BY <1>12 DEF SuccessStep, CreateSucceeds, UpdateSucceeds, DeleteSucceeds
  <2> QED
    BY <1>2, <1>4, <2>1 DEF ThenRead, InvalidateList, NoListFetch
<1>13. CASE ListAnswered
  <2>1. /\ listFetch'.st = "idle" /\ list' = listFetch.rows
        /\ UNCHANGED <<rows, creating, updating, deleting>>
    BY <1>13 DEF ListAnswered, Render, NoListFetch
  <2> QED
    BY <1>2, <1>13, <2>1 DEF ListAnswered, ListIsCurrent, WrittenUnseen
<1>14. CASE CallFails
  <2>1. \A c \in {creating, updating, deleting} : c.st # "written"
    BY <1>14 DEF CallFails
  <2> QED
    BY <1>3, <1>14, <2>1 DEF CallFails, WrittenUnseen
<1>15. ~ListFailed
  BY DEF ListFailed
<1> QED
  BY <1>6, <1>7, <1>8, <1>9, <1>10, <1>11, <1>12, <1>13, <1>14, <1>15 DEF FormNext, ServerStep

LEMMA CurrentListIsRows == FormInv /\ CurrentInv => ListCatchesUp
<1> SUFFICES ASSUME FormInv, CurrentInv, listFetch = NoListFetch, Idle, ~missed, panel # CveFeedPanel
             PROVE  list = rows
  BY DEF ListCatchesUp
<1>1. \A r \in Records : rows[r] = list[r]
  BY DEF CurrentInv, ListIsCurrent, WrittenUnseen, Idle, NoCall, NoListFetch
<1>2. rows \in Versions /\ list \in Versions
  BY DEF FormInv, FormTypeOK
<1> QED
  BY <1>1, <1>2 DEF Versions

-----------------------------------------------------------------------------
(* The schedule picker.                                                    *)

\* An expression that is opened is one record of the five fields.
LEMMA CronFields ==
  ASSUME NEW e \in Cron
  PROVE  /\ e.minute \in CronMinutes \cup {Any, Other} /\ e.hour \in CronHours \cup {Any, Other}
         /\ e.dom \in CronDays \cup {Any, Other} /\ e.month \in {Any, Other}
         /\ e.dow \in CronWeekdays \cup {Any, Other}
         /\ e = [minute |-> e.minute, hour |-> e.hour, dom |-> e.dom, month |-> e.month,
                 dow |-> e.dow]
  BY DEF Cron

\* A field that is fixed is a number of its kind.
LEMMA FixedFields ==
  ASSUME NEW e \in Cron
  PROVE  /\ IsFixed(e.minute) => e.minute \in CronMinutes
         /\ IsFixed(e.hour) => e.hour \in CronHours
         /\ IsFixed(e.dom) => e.dom \in CronDays
         /\ IsFixed(e.dow) => e.dow \in CronWeekdays
  BY CronFields DEF IsFixed, Any, Other

\* What a frequency that parsing chooses says about the expression.
LEMMA FrequencyFits ==
  ASSUME NEW e \in Cron
  PROVE  /\ FrequencyOf(e) \in ScheduleFrequency
         /\ FrequencyOf(e) # "custom" => e.month = Any /\ IsFixed(e.minute)
         /\ FrequencyOf(e) = "hourly" => e.hour = Any /\ e.dom = Any /\ e.dow = Any
         /\ FrequencyOf(e) = "daily" => IsFixed(e.hour) /\ e.dom = Any /\ e.dow = Any
         /\ FrequencyOf(e) = "weekly" => IsFixed(e.hour) /\ e.dom = Any /\ IsFixed(e.dow)
         /\ FrequencyOf(e) = "monthly" => IsFixed(e.hour) /\ IsFixed(e.dom) /\ e.dow = Any
  BY CronFields DEF FrequencyOf, ScheduleFrequency, IsFixed, Any, Other

LEMMA DefaultTyped ==
  /\ DefaultSchedule \in ScheduleConfig
  /\ NoCron \in Cron
  BY SchedulePickerAssumption
  DEF DefaultSchedule, ScheduleConfig, ScheduleFrequency, NoCron, CronOf, Cron, Any, Other

LEMMA ParsedTyped ==
  ASSUME NEW e \in Cron
  PROVE  ParseCron(e) \in ScheduleConfig
<1>1. /\ DefaultSchedule.minute \in CronMinutes /\ DefaultSchedule.hour \in CronHours
      /\ DefaultSchedule.dayOfWeek \in CronWeekdays /\ DefaultSchedule.dayOfMonth \in CronDays
      /\ DefaultSchedule.customCron \in Cron
  BY DefaultTyped DEF ScheduleConfig
<1> QED
  BY <1>1, FrequencyFits, FixedFields DEF ParseCron, ScheduleConfig

LEMMA BuiltTyped ==
  ASSUME NEW c \in ScheduleConfig
  PROVE  BuildCron(c) \in Cron
<1>1. /\ c.frequency \in ScheduleFrequency /\ c.minute \in CronMinutes /\ c.hour \in CronHours
      /\ c.dayOfWeek \in CronWeekdays /\ c.dayOfMonth \in CronDays /\ c.customCron \in Cron
  BY DEF ScheduleConfig
<1>2. (IF c.dayOfWeek > 6 THEN 6 ELSE c.dayOfWeek) \in CronWeekdays
  BY <1>1, SchedulePickerAssumption
<1> QED
  BY <1>1, <1>2 DEF BuildCron, ScheduleFrequency, CronOf, Cron

\* Building what was parsed gives the expression back, whatever its form.
LEMMA BuildInvertsParse ==
  ASSUME NEW e \in Cron
  PROVE  e.dow # 7 => BuildCron(ParseCron(e)) = e
<1> SUFFICES ASSUME e.dow # 7
             PROVE  BuildCron(ParseCron(e)) = e
  OBVIOUS
<1> DEFINE f == FrequencyOf(e)
           c == ParseCron(e)
<1>1. /\ c.frequency = f
      /\ f # "custom" => c.minute = e.minute
      /\ f \in {"daily", "weekly", "monthly"} => c.hour = e.hour
      /\ f = "weekly" => c.dayOfWeek = e.dow
      /\ f = "monthly" => c.dayOfMonth = e.dom
      /\ f = "custom" => c.customCron = e
  BY DEF ParseCron
<1>2. f = "weekly" => ~(e.dow > 6)
  <2>1. f = "weekly" => e.dow \in CronWeekdays
    BY FrequencyFits, FixedFields
  <2>2. ASSUME NEW d \in CronWeekdays, d # 7
        PROVE  ~(d > 6)
    BY <2>2, SchedulePickerAssumption
  <2> QED
    BY <2>1, <2>2
<1>3. e = [minute |-> e.minute, hour |-> e.hour, dom |-> e.dom, month |-> e.month, dow |-> e.dow]
  BY CronFields
<1> HIDE DEF c, f
<1>4. f \in ScheduleFrequency
  BY FrequencyFits DEF f
<1>5. CASE f = "custom"
  BY <1>1, <1>5 DEF BuildCron, c
<1>6. CASE f = "hourly"
  BY <1>1, <1>3, <1>6, FrequencyFits DEF BuildCron, CronOf, f, c
<1>7. CASE f = "daily"
  BY <1>1, <1>3, <1>7, FrequencyFits DEF BuildCron, CronOf, f, c
<1>8. CASE f = "weekly"
  BY <1>1, <1>2, <1>3, <1>8, FrequencyFits DEF BuildCron, CronOf, f, c
<1>9. CASE f = "monthly"
  BY <1>1, <1>3, <1>9, FrequencyFits DEF BuildCron, CronOf, f, c
<1> QED
  BY <1>4, <1>5, <1>6, <1>7, <1>8, <1>9 DEF ScheduleFrequency

ScheduleInv ==
  /\ ScheduleTypeOK
  /\ reopened # NoCron => schedule = ParseCron(reopened)

LEMMA ScheduleInitial == ScheduleInit => ScheduleInv
  BY DefaultTyped DEF ScheduleInit, ScheduleInv, ScheduleTypeOK

LEMMA ScheduleStep == ScheduleInv /\ ScheduleNext => ScheduleInv'
<1> SUFFICES ASSUME ScheduleInv, ScheduleNext
             PROVE  ScheduleInv'
  OBVIOUS
<1>1. schedule \in ScheduleConfig /\ reopened \in Cron
  BY DEF ScheduleInv, ScheduleTypeOK
<1>2. ASSUME NEW e \in Cron, FillIn(e)
      PROVE  ScheduleInv'
  BY <1>2, ParsedTyped DEF FillIn, ScheduleInv, ScheduleTypeOK
<1>3. ASSUME NEW config \in ScheduleConfig, UpdateConfig(config)
      PROVE  ScheduleInv'
  BY <1>3, DefaultTyped DEF UpdateConfig, ScheduleInv, ScheduleTypeOK
<1>4. ASSUME NEW e \in Cron, OpenSchedule(e)
      PROVE  ScheduleInv'
  BY <1>2, <1>4 DEF OpenSchedule
<1>5. CASE ChooseFrequency
  BY <1>1, <1>3, <1>5 DEF ChooseFrequency, ScheduleConfig
<1>6. CASE ChooseMinute
  BY <1>1, <1>3, <1>6 DEF ChooseMinute, ScheduleConfig
<1>7. CASE HandleTimeChange
  BY <1>1, <1>3, <1>7 DEF HandleTimeChange, ScheduleConfig
<1>8. CASE ChooseDay
  BY <1>1, <1>3, <1>8 DEF ChooseDay, ScheduleConfig
<1>9. CASE TypeCron
  <2>1. PICK field \in DOMAIN schedule.customCron, text \in -2..59 :
          LET config == [schedule EXCEPT !.customCron[field] = text]
          IN  config.customCron \in Cron /\ UpdateConfig(config)
    BY <1>9 DEF TypeCron
  <2> DEFINE config == [schedule EXCEPT !.customCron[field] = text]
  <2>2. config.customCron \in Cron /\ UpdateConfig(config)
    BY <2>1
  <2>3. config = [schedule EXCEPT !.customCron = config.customCron]
    BY <1>1 DEF ScheduleConfig
  <2>4. config \in ScheduleConfig
    BY <1>1, <2>2, <2>3 DEF ScheduleConfig
  <2> QED
    BY <1>3, <2>2, <2>4
<1>10. CASE SaveSchedule
  BY <1>1, <1>2, <1>10, BuiltTyped DEF SaveSchedule
<1> QED
  BY <1>4, <1>5, <1>6, <1>7, <1>8, <1>9, <1>10 DEF ScheduleNext
=============================================================================
