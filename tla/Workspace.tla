------------------------------ MODULE Workspace ------------------------------
(***************************************************************************)
(* The language server's open documents (DocumentManager and the handlers  *)
(* of registerAnalysisHandlers).  A document is analysed together with the *)
(* texts of all the others: of an open one the text of its own last        *)
(* analysis, of a closed one the file on disk.  An edit is analysed when   *)
(* its debounce timer fires, or earlier when the editor asks for semantic  *)
(* tokens, which publishes nothing.                                        *)
(***************************************************************************)
EXTENDS Naturals

CONSTANTS Docs, Texts

ASSUME WorkspaceAssumption == 0 \notin Texts

None == 0

VARIABLES
  live,      \* document -> the text in the editor, None when it is closed
  source,    \* document -> the text of its last analysis (DocumentState)
  debounce,  \* the documents with a debounce timer running
  disk,      \* document -> the text in its file
  watch,     \* the client has changed files to report
  shown      \* document -> the texts its published diagnostics are about

workspaceVars == <<live, source, debounce, disk, watch, shown>>

\* No diagnostics at all.
Nothing == [d \in Docs |-> None]

OpenDocs == {d \in Docs : source[d] # None}

\* analyzeDocument: the texts an analysis looks at when the documents have
\* the texts src.
Analysed(src) == [d \in Docs |-> IF src[d] = None THEN disk[d] ELSE src[d]]

WorkspaceInit ==
  /\ live = Nothing /\ source = Nothing /\ debounce = {}
  /\ disk \in [Docs -> Texts] /\ watch = FALSE
  /\ shown = [d \in Docs |-> Nothing]

\* onDocumentOpen and onDocumentChange, with the publication that follows.
AnalyseAndPublish(d, text) ==
  /\ source' = [source EXCEPT ![d] = text]
  /\ shown' = [shown EXCEPT ![d] = Analysed(source')]

\* The editor may open a document with unsaved text of an earlier session;
\* the library of the server reports an open document as changed, too.
Open(d, text) ==
  /\ live[d] = None
  /\ live' = [live EXCEPT ![d] = text]
  /\ AnalyseAndPublish(d, text)
  /\ debounce' = debounce \union {d}
  /\ UNCHANGED <<disk, watch>>

\* The timer is started afresh.
Edit(d, text) ==
  /\ live[d] # None
  /\ live' = [live EXCEPT ![d] = text]
  /\ debounce' = debounce \union {d}
  /\ UNCHANGED <<source, disk, watch, shown>>

Close(d) ==
  /\ live[d] # None
  /\ live' = [live EXCEPT ![d] = None]
  /\ source' = [source EXCEPT ![d] = None]
  /\ shown' = [shown EXCEPT ![d] = Nothing]
  /\ debounce' = debounce \ {d}
  /\ UNCHANGED <<disk, watch>>

\* The timer's callback reads the text of that moment, not of the edit.
DebouncedOnce(d) ==
  /\ d \in debounce
  /\ debounce' = debounce \ {d}
  /\ IF source[d] = live[d] THEN UNCHANGED <<source, shown>>
                            ELSE AnalyseAndPublish(d, live[d])
  /\ UNCHANGED <<live, disk, watch>>

Debounced(d) ==
  /\ d \in debounce
  /\ debounce' = debounce \ {d}
  /\ AnalyseAndPublish(d, live[d])
  /\ UNCHANGED <<live, disk, watch>>

\* semanticTokens: analyses a text the timer has not come to yet.
TokensCancel(d) ==
  /\ live[d] # None /\ live[d] # source[d]
  /\ source' = [source EXCEPT ![d] = live[d]]
  /\ debounce' = debounce \ {d}
  /\ UNCHANGED <<live, disk, watch, shown>>

Tokens(d) ==
  /\ live[d] # None /\ live[d] # source[d]
  /\ source' = [source EXCEPT ![d] = live[d]]
  /\ UNCHANGED <<live, debounce, disk, watch, shown>>

Save(d) ==
  /\ live[d] # None /\ disk[d] # live[d]
  /\ disk' = [disk EXCEPT ![d] = live[d]] /\ watch' = TRUE
  /\ UNCHANGED <<live, source, debounce, shown>>

ChangedOutside(d, text) ==
  /\ live[d] = None
  /\ disk' = [disk EXCEPT ![d] = text] /\ watch' = TRUE
  /\ UNCHANGED <<live, source, debounce, shown>>

\* reanalyzeAll: every open document, with the texts of the last analyses.
ReanalyzeAll ==
  /\ shown' = [d \in Docs |-> IF d \in OpenDocs THEN Analysed(source) ELSE shown[d]]
  /\ UNCHANGED <<live, source, debounce, disk>>

Watched == watch /\ watch' = FALSE /\ ReanalyzeAll

\* Workspace folders, settings or library paths changed.
Reconfigured == ReanalyzeAll /\ UNCHANGED watch

WorkspaceNext ==
  \/ \E d \in Docs : Close(d) \/ Debounced(d) \/ Tokens(d) \/ Save(d)
  \/ \E d \in Docs, text \in Texts :
       Open(d, text) \/ Edit(d, text) \/ ChangedOutside(d, text)
  \/ Watched \/ Reconfigured

\* Timers fire.
WorkspaceFairness == \A d \in Docs : WF_workspaceVars(Debounced(d))

WorkspaceSpec == WorkspaceInit /\ [][WorkspaceNext]_workspaceVars /\ WorkspaceFairness

(***************************************************************************)
(* Properties.                                                             *)
(***************************************************************************)

\* The diagnostics of an open document are those of its text in the editor,
\* or a timer is running that will publish them: whatever saved files,
\* settings and semantic tokens have been analysed meanwhile, and in what
\* order; a closed document has none (registerAnalysisHandlers).
StaleIsPending ==
  \A d \in Docs :
    /\ live[d] # None /\ shown[d][d] # live[d] => d \in debounce
    /\ live[d] = None => shown[d] = Nothing /\ d \notin debounce

\* An edit that stays gets its diagnostics, also if semantic tokens had it
\* analysed before the timer (the handler of textDocuments.onDidChangeContent).
EditsAreAnalysed ==
  \A d \in Docs : \A text \in Texts :
    live[d] = text ~> (live[d] # text \/ shown[d][d] = text)
=============================================================================
