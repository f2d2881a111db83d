----------------------------- MODULE IdeEditor ------------------------------
(***************************************************************************)
(* One file in the editor pane of the UI and on the disks of the sources   *)
(* the pane can show (the project, the worktree of a task): the tab with   *)
(* its draft, the calls it has in flight (ide_read_file, ide_write_file,   *)
(* ide_format_file and ide_fix_file), and the agents that write the same   *)
(* files.  The editor stays writable while a call is in flight, and the    *)
(* answer of a call goes to the tab of its path, whatever source the pane  *)
(* shows by then.                                                          *)
(***************************************************************************)
EXTENDS Integers, FiniteSets

CONSTANTS
    Source,   \* what the pane can show
    Request,  \* calls of the pane, each made once
    MaxText   \* texts that anyone writes (bound)

ASSUME EditorAssumption == MaxText \in Nat

VARIABLES
    disk,         \* text of the file in each source
    sourceShown,  \* source the pane shows
    tab,          \* the tab of the file, NoTab when there is none
    acting,       \* pythonActionRunning
    request,      \* the calls
    texts,        \* how many texts there are
    saves         \* history: what each save replaced and was typed over

editorVars == <<disk, sourceShown, tab, acting, request, texts, saves>>

Text == 0..MaxText

(* A file as the server describes it; its sha256 stands for its text.      *)
OpenFile == [source : Source, text : Text]

NoTab   == [open |-> "no"]
Loading == [open |-> "loading"]
Unused  == [step |-> "unused"]
Ended   == [step |-> "ended"]

(* over is the text on the disk that the draft was typed over.             *)
Tabs == {NoTab, Loading}
        \cup [open : {"yes"}, file : OpenFile, draft : Text, over : Text, saving : BOOLEAN]

Requests ==
    {Unused, Ended}
    \cup [step : {"read"}, of : {"open", "save", "action"}, source : Source]
    \cup [step : {"check", "rename"}, source : Source, content : Text, expected : Text,
          over : Text, raced : BOOLEAN]
    \cup [step : {"tool"}, source : Source]
    \cup [step : {"answer"}, of : {"open", "save", "action"}, file : OpenFile]
    \cup [step : {"refused"}, of : {"save", "action"}]

EditorTypeOK ==
    /\ disk \in [Source -> Text]
    /\ sourceShown \in Source
    /\ tab \in Tabs
    /\ acting \in BOOLEAN
    /\ request \in [Request -> Requests]
    /\ texts \in Text
    /\ saves \subseteq [replaced : Text, over : Text]

EditorInit ==
    /\ disk = [s \in Source |-> 0]
    /\ sourceShown \in Source
    /\ tab = NoTab
    /\ acting = FALSE
    /\ request = [r \in Request |-> Unused]
    /\ texts = 0
    /\ saves = {}

Loaded(file) == [open |-> "yes", file |-> file, draft |-> file.text, over |-> file.text,
                 saving |-> FALSE]

Dirty == tab.draft # tab.file.text

Send(r, call) ==
    /\ request[r] = Unused
    /\ request' = [request EXCEPT ![r] = call]

-----------------------------------------------------------------------------
(* openFile: a tab for the file, and its read from the source shown.       *)
Open(r) ==
    /\ tab = NoTab
    /\ tab' = Loading
    /\ Send(r, [step |-> "read", of |-> "open", source |-> sourceShown])
    /\ UNCHANGED <<disk, sourceShown, acting, texts, saves>>

(* The user types; the text is new.                                        *)
Type ==
    /\ tab.open = "yes"
    /\ texts < MaxText
    /\ texts' = texts + 1
    /\ tab' = [tab EXCEPT !.draft = texts',
                          !.over = IF Dirty THEN @ ELSE tab.file.text]
    /\ UNCHANGED <<disk, sourceShown, acting, request, saves>>

(* The Revert button, disabled while a call is in flight.                  *)
Revert ==
    /\ tab.open = "yes" /\ Dirty /\ ~tab.saving /\ ~acting
    /\ tab' = Loaded(tab.file)
    /\ UNCHANGED <<disk, sourceShown, acting, request, texts, saves>>

(* closeTab, or the pane is given another source and drops its tabs.       *)
Close(s) ==
    /\ tab # NoTab \/ s # sourceShown
    /\ tab' = NoTab
    /\ sourceShown' = s
    /\ UNCHANGED <<disk, acting, request, texts, saves>>

(* saveFile: the draft, for the file of the tab and its sha256.            *)
Save(r) ==
    /\ tab.open = "yes" /\ Dirty /\ ~tab.saving /\ ~acting
    /\ Send(r, [step |-> "check", source |-> tab.file.source, content |-> tab.draft,
                expected |-> tab.file.text, over |-> tab.over, raced |-> FALSE])
    /\ tab' = [tab EXCEPT !.saving = TRUE]
    /\ UNCHANGED <<disk, sourceShown, acting, texts, saves>>

(* runActivePythonAction: format or fix the file of the tab.               *)
Act(r) ==
    /\ tab.open = "yes" /\ ~tab.saving /\ ~acting
    /\ Send(r, [step |-> "tool", source |-> tab.file.source])
    /\ acting' = TRUE
    /\ UNCHANGED <<disk, sourceShown, tab, texts, saves>>

(* writeIdeFile is synchronous: of the sidecar's calls nothing comes       *)
(* between its comparison and its rename.                                  *)
Uninterrupted == \A r \in Request : request[r].step # "rename"

(* writeIdeFile reads the file and compares its sha256 with the expected.  *)
Check(r) ==
    /\ request[r].step = "check" /\ Uninterrupted
    /\ request' = [request EXCEPT ![r] = IF disk[@.source] = @.expected
                                         THEN [@ EXCEPT !.step = "rename"]
                                         ELSE [step |-> "refused", of |-> "save"]]
    /\ UNCHANGED <<disk, sourceShown, tab, acting, texts, saves>>

(* It writes a temporary file and renames it over the other.  raced: an    *)
(* other process wrote between the comparison and this.                    *)
Rename(r) ==
    /\ request[r].step = "rename"
    /\ disk' = [disk EXCEPT ![request[r].source] = request[r].content]
    /\ saves' = IF request[r].raced THEN saves
                ELSE saves \cup {[replaced |-> disk[request[r].source], over |-> request[r].over]}
    /\ request' = [request EXCEPT ![r] = [step |-> "read", of |-> "save", source |-> @.source]]
    /\ UNCHANGED <<sourceShown, tab, acting, texts>>

Written(s) ==
    request' = [r \in Request |-> IF request[r].step = "rename" /\ request[r].source = s
                                  THEN [request[r] EXCEPT !.raced = TRUE] ELSE request[r]]

(* The tool of a format or a fix has rewritten the file on the disk.       *)
ToolWrites(r) ==
    /\ request[r].step = "tool"
    /\ texts < MaxText
    /\ texts' = texts + 1
    /\ disk' = [disk EXCEPT ![request[r].source] = texts']
    /\ Written(request[r].source)
    /\ UNCHANGED <<sourceShown, tab, acting, saves>>

(* It ends, having rewritten the file or not, or it fails.                 *)
ToolEnds(r, ok) ==
    /\ request[r].step = "tool"
    /\ request' = [request EXCEPT ![r] = IF ok
                       THEN [step |-> "read", of |-> "action", source |-> @.source]
                       ELSE [step |-> "refused", of |-> "action"]]
    /\ UNCHANGED <<disk, sourceShown, tab, acting, texts, saves>>

(* readIdeFile, alone or at the end of the others.                         *)
Read(r) ==
    /\ request[r].step = "read" /\ Uninterrupted
    /\ request' = [request EXCEPT ![r] = [step |-> "answer", of |-> @.of,
           file |-> [source |-> @.source, text |-> disk[@.source]]]]
    /\ UNCHANGED <<disk, sourceShown, tab, acting, texts, saves>>

(* Mutant of Answer: what was typed while a tool ran is kept.              *)
AnswerKeepsDraft(r) ==
    LET f == request[r].file
    IN /\ request[r].step = "answer"
       /\ tab' = CASE tab = NoTab -> NoTab
                   [] tab.open = "yes" /\ request[r].of = "action" -> [tab EXCEPT !.file = f]
                   [] OTHER -> Loaded(f)
       /\ acting' = (acting /\ request[r].of # "action")
       /\ request' = [request EXCEPT ![r] = Ended]
       /\ UNCHANGED <<disk, sourceShown, texts, saves>>

(* The answer arrives: the tab of this path, if there is one, shows what   *)
(* the server read, and its draft is that too.  The buttons the call had   *)
(* disabled are enabled.                                                   *)
Answer(r) ==
    /\ request[r].step = "answer"
    /\ tab' = IF tab = NoTab THEN NoTab
              ELSE [Loaded(request[r].file) EXCEPT
                       !.saving = tab.open = "yes" /\ tab.saving /\ request[r].of # "save"]
    /\ acting' = (acting /\ request[r].of # "action")
    /\ request' = [request EXCEPT ![r] = Ended]
    /\ UNCHANGED <<disk, sourceShown, texts, saves>>

(* A refused save or a failed tool leaves the draft as it is.              *)
Refused(r) ==
    /\ request[r].step = "refused"
    /\ tab' = IF tab.open = "yes" /\ request[r].of = "save" THEN [tab EXCEPT !.saving = FALSE]
              ELSE tab
    /\ acting' = (acting /\ request[r].of # "action")
    /\ request' = [request EXCEPT ![r] = Ended]
    /\ UNCHANGED <<disk, sourceShown, texts, saves>>

(* An agent writes the file.                                               *)
AgentWrites(s) ==
    /\ texts < MaxText
    /\ texts' = texts + 1
    /\ disk' = [disk EXCEPT ![s] = texts']
    /\ Written(s)
    /\ UNCHANGED <<sourceShown, tab, acting, saves>>

EditorNext ==
    \/ \E r \in Request :
          \/ Open(r) \/ Save(r) \/ Act(r) \/ Check(r) \/ Rename(r) \/ Read(r)
          \/ ToolWrites(r) \/ Answer(r) \/ Refused(r)
          \/ \E ok \in BOOLEAN : ToolEnds(r, ok)
    \/ Type \/ Revert
    \/ \E s \in Source : Close(s) \/ AgentWrites(s)

EditorSpec == EditorInit /\ [][EditorNext]_editorVars

-----------------------------------------------------------------------------
(* A save replaces no text but the one its draft was typed over, whichever *)
(* answers arrive late, in another order or in the tab of another source,  *)
(* unless an agent or a tool wrote between the check and the rename.       *)
SaveReplacesWhatWasSeen ==
    \A s \in saves : s.replaced = s.over
=============================================================================
