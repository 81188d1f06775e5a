---------------------------- MODULE ScriptEditor ----------------------------
(***************************************************************************)
(* Editors of scripts over the query cache: the script viewer of           *)
(* ProfilesPage.tsx ("profile"), the editor of RemediationPage.tsx         *)
(* ("remediation") and that of a versioned template in PlaybooksPage.tsx   *)
(* ("playbook").                                                           *)
(*                                                                         *)
(* A mutation's onSuccess is the one of the latest render: it writes under *)
(* the script that is shown when the answer comes.  Whatever is typed is a *)
(* text that was not there before.                                         *)
(***************************************************************************)
EXTENDS Naturals

CONSTANTS
  Scripts,
  NoScript,
  MaxRevisions   \* bound: how often a text is changed

ASSUME ScriptEditorAssumption == NoScript \notin Scripts /\ MaxRevisions \in Nat

VARIABLES
  editorKind,
  stored,     \* stored[s]: the server's text
  fetched,    \* fetched[s]: the text in the query cache
  fetching,   \* fetching[s]: the query of s under way
  viewing,    \* viewingScript, editorScriptId or selectedId
  draft,      \* editedContent or content
  isDirty,
  saving,     \* saveScriptMutation or updateContentMutation
  mixedUp     \* history: see MixedUp

editorVars == <<editorKind, stored, fetched, fetching, viewing, draft, isDirty, saving, mixedUp>>

-----------------------------------------------------------------------------

EditorKinds == {"profile", "remediation", "playbook"}

\* of: the script whose text was edited to give this one.
Text == [of : Scripts, rev : 0..MaxRevisions]

NoText == [of |-> NoScript, rev |-> 0]

\* "read": the server has read the text, and its answer is on the way.
Fetch == [st : {"idle", "sent", "read"}, text : Text \cup {NoText}]

NoFetch == [st |-> "idle", text |-> NoText]

\* "written": the server has the text.
Save == [st : {"idle", "sent", "written"}, script : Scripts \cup {NoScript},
         text : Text \cup {NoText}]

NoSave == [st |-> "idle", script |-> NoScript, text |-> NoText]

EditorTypeOK ==
  /\ editorKind \in EditorKinds
  /\ stored \in [Scripts -> Text]
  /\ fetched \in [Scripts -> Text \cup {NoText}]
  /\ fetching \in [Scripts -> Fetch]
  /\ viewing \in Scripts \cup {NoScript}
  /\ draft \in Text \cup {NoText}
  /\ isDirty \in BOOLEAN
  /\ saving \in Save
  /\ mixedUp \in BOOLEAN

\* The list of playbooks, which brings their texts, is there before the editor.
EditorInit ==
  /\ editorKind \in EditorKinds
  /\ stored = [s \in Scripts |-> [of |-> s, rev |-> 0]]
  /\ fetched = IF editorKind = "playbook" THEN stored ELSE [s \in Scripts |-> NoText]
  /\ fetching = [s \in Scripts |-> NoFetch]
  /\ viewing = NoScript
  /\ draft = NoText
  /\ isDirty = FALSE
  /\ saving = NoSave
  /\ mixedUp = FALSE

-----------------------------------------------------------------------------
(* The query of a script's text.                                           *)

\* When its key is mounted, and when the window gets the focus.
Refetch(s) ==
  fetching' = IF fetching[s].st = "idle" THEN [fetching EXCEPT ![s].st = "sent"] ELSE fetching

WindowFocus ==
  /\ viewing # NoScript
  /\ Refetch(viewing)
  /\ UNCHANGED <<editorKind, stored, fetched, viewing, draft, isDirty, saving, mixedUp>>

ServerReads(s) ==
  /\ fetching[s].st = "sent"
  /\ fetching' = [fetching EXCEPT ![s] = [st |-> "read", text |-> stored[s]]]
  /\ UNCHANGED <<editorKind, stored, fetched, viewing, draft, isDirty, saving, mixedUp>>

BugLoadAny(s, text) ==
  IF editorKind # "playbook" /\ text # fetched[s]
    THEN draft' = text /\ isDirty' = FALSE
    ELSE UNCHANGED <<draft, isDirty>>

\* The effect on scriptContent.data: a text that is new in the cache of the script
\* shown replaces the draft.  (Playbooks are loaded into the editor by loadPlaybook
\* only.)
Loaded(s, text) ==
  IF editorKind # "playbook" /\ s = viewing /\ text # fetched[s]
    THEN draft' = text /\ isDirty' = FALSE
    ELSE UNCHANGED <<draft, isDirty>>

FetchAnswered(s) ==
  LET text == fetching[s].text IN
  /\ fetching[s].st = "read"
  /\ fetching' = [fetching EXCEPT ![s] = NoFetch]
  /\ fetched' = [fetched EXCEPT ![s] = text]
  /\ Loaded(s, text)
  /\ mixedUp' = (mixedUp \/ text # stored[s])
  /\ UNCHANGED <<editorKind, stored, viewing, saving>>

FetchFailed(s) ==
  /\ fetching[s].st # "idle"
  /\ fetching' = [fetching EXCEPT ![s] = NoFetch]
  /\ UNCHANGED <<editorKind, stored, fetched, viewing, draft, isDirty, saving, mixedUp>>

-----------------------------------------------------------------------------
(* What the user does.  Whether to discard a draft is asked first where    *)
(* isDirty is looked at; the user may well say yes.                        *)

\* setEditorScriptId: the draft stays as it is, dirty, until the text is there.
CarryDraft(s) ==
  IF fetched[s] # NoText THEN draft' = fetched[s] /\ isDirty' = FALSE
                         ELSE UNCHANGED <<draft, isDirty>>

\* openScriptViewer empties the editor until the text is there.
OpenEmpty(s) == draft' = fetched[s] /\ isDirty' = FALSE

\* openScriptViewer; selectScriptInEditor, or the effect that selects a script of
\* the list filtered anew; loadPlaybook.
OpenScript(s) ==
  /\ viewing # s
  /\ editorKind = "profile" => viewing = NoScript
  /\ viewing' = s
  /\ \/ editorKind # "remediation" /\ OpenEmpty(s)
     \/ editorKind = "remediation" /\ CarryDraft(s)
  /\ \/ editorKind # "playbook" /\ Refetch(s)
     \/ editorKind = "playbook" /\ UNCHANGED fetching
  /\ mixedUp' = (mixedUp \/ (isDirty /\ editorKind = "remediation"))
  /\ UNCHANGED <<editorKind, stored, fetched, saving>>

\* closeScriptViewer
CloseScript ==
  /\ editorKind # "remediation" /\ viewing # NoScript
  /\ viewing' = NoScript
  /\ draft' = NoText
  /\ isDirty' = FALSE
  /\ UNCHANGED <<editorKind, stored, fetched, fetching, saving, mixedUp>>

\* The editor is there once a text is.
TypeText ==
  /\ viewing # NoScript /\ fetched[viewing] # NoText
  /\ draft.rev < MaxRevisions
  /\ draft' = [draft EXCEPT !.rev = draft.rev + 1]
  /\ isDirty' = TRUE
  /\ UNCHANGED <<editorKind, stored, fetched, fetching, viewing, saving, mixedUp>>

\* The Save button.  Playbooks are saved dirty or not, and only the profile viewer
\* waits until the text is there.
CanSave ==
  /\ viewing # NoScript /\ saving = NoSave
  /\ editorKind = "playbook" \/ isDirty
  /\ editorKind = "profile" => fetched[viewing] # NoText

SaveScript ==
  /\ CanSave
  /\ saving' = [st |-> "sent", script |-> viewing, text |-> draft]
  /\ UNCHANGED <<editorKind, stored, fetched, fetching, viewing, draft, isDirty, mixedUp>>

-----------------------------------------------------------------------------
(* The save.                                                               *)

ServerWrites ==
  /\ saving.st = "sent"
  /\ stored' = [stored EXCEPT ![saving.script] = saving.text]
  /\ saving' = [saving EXCEPT !.st = "written"]
  /\ UNCHANGED <<editorKind, fetched, fetching, viewing, draft, isDirty, mixedUp>>

BugNoSetQueryData == UNCHANGED fetched

\* setQueryData, under the key of the script shown now.
SetQueryData ==
  fetched' = IF viewing = NoScript THEN fetched ELSE [fetched EXCEPT ![viewing] = saving.text]

\* onSuccess of the scripts' mutations.
ScriptSaved ==
  /\ editorKind # "playbook"
  /\ SetQueryData
  /\ draft' = saving.text
  /\ isDirty' = FALSE
  /\ UNCHANGED fetching

\* onSuccess of updateContentMutation: the text goes to the editor, and the list is
\* fetched anew.
PlaybookSaved ==
  /\ editorKind = "playbook"
  /\ draft' = saving.text
  /\ fetching' = [s \in Scripts |-> [st |-> "sent", text |-> NoText]]
  /\ UNCHANGED <<fetched, isDirty>>

\* The answer came when another script, or none, was shown.
SaveAnswered ==
  /\ saving.st = "written"
  /\ ScriptSaved \/ PlaybookSaved
  /\ saving' = NoSave
  /\ mixedUp' = (mixedUp \/ viewing # saving.script)
  /\ UNCHANGED <<editorKind, stored, viewing>>

\* onError: it was refused, or written and its answer lost.
SaveFailed ==
  /\ saving.st # "idle"
  /\ saving' = NoSave
  /\ mixedUp' = (mixedUp \/ saving.st = "written")
  /\ UNCHANGED <<editorKind, stored, fetched, fetching, viewing, draft, isDirty>>

\* Nothing is said of what happens after a mix-up.
EditorNext == ~mixedUp /\
  \/ \E s \in Scripts : ServerReads(s) \/ FetchAnswered(s) \/ FetchFailed(s) \/ OpenScript(s)
  \/ WindowFocus \/ CloseScript \/ TypeText
  \/ SaveScript \/ ServerWrites \/ SaveAnswered \/ SaveFailed

-----------------------------------------------------------------------------
(* Properties.  mixedUp: the save of one script was answered when another  *)
(* was shown, the answer of a save was lost, a query's answer was older    *)
(* than a save, or the remediation editor went on to another script with a *)
(* draft ("Discard unsaved script changes?", yes).  These are defects of   *)
(* the pages; the properties say that there is no other way to go wrong.   *)

\* No script is overwritten with the text of another one.
SavedIntoItsOwnScript ==
  ~mixedUp => \A s \in Scripts : stored[s].of = s

\* An editor that has nothing to save shows what the server has, once no save is
\* under way, also after failed queries and saves, and however often the scripts
\* were opened and closed.
CleanMeansSaved ==
  (/\ ~mixedUp /\ editorKind # "playbook"
   /\ viewing # NoScript /\ fetched[viewing] # NoText /\ ~isDirty
   /\ saving = NoSave)
    => draft = stored[viewing]

=============================================================================
