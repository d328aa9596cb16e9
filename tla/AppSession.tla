----------------------------- MODULE AppSession -----------------------------
(***************************************************************************)
(* One browser session of the demo application (app.py).  Every            *)
(* interaction runs the script from its top; a new one stops the run that  *)
(* is under way, at any access to session_state, which is what survives    *)
(* from run to run.  So every assignment to it is a step of its own.       *)
(***************************************************************************)
EXTENDS Integers, Sequences, FiniteSets

CONSTANTS
    Upload,         \* [sig, content, good]: what the uploader holds
    Setting,        \* model and training rows chosen in the sidebar
    MaxRuns, MaxLoads       \* bounds of the model

VARIABLES
    upload, setting,    \* the widgets of this run
    ss,             \* st.session_state; what was loaded is known by its load
    open, dirs,     \* data sources that are open, temporary directories on disk
    audits,         \* the tool calls in the audit.db of each directory
    capture,        \* rows of the _RowCapture in session_state
    whole,          \* no load was stopped within its update since the last that ended
    at,             \* where the script is
    loads, runs

vars == <<upload, setting, ss, open, dirs, audits, capture, whole, at, loads, runs>>

NoAgent == [source |-> 0, semantic |-> 0, dir |-> 0, setting |-> 0]
NoRows == [question |-> 0, source |-> 0]

(* chat: messages is there; model: model_sig; linked: the agent observes with the
   capture of session_state. *)
Init ==
    /\ upload \in Upload /\ setting \in Setting
    /\ ss = [sig |-> 0, dir |-> 0, source |-> 0, content |-> 0, semantic |-> 0,
             chat |-> FALSE, messages |-> <<>>,
             agent |-> NoAgent, model |-> <<0, 0>>, linked |-> FALSE]
    /\ open = {} /\ dirs = {} /\ audits = <<>> /\ capture = NoRows /\ whole = TRUE
    /\ at = "idle" /\ loads = 0 /\ runs = 0

Asked == Cardinality({j \in DOMAIN ss.messages : ss.messages[j].role = "user"})

(* A line of the script that is done with. *)
Passes(from, to) == at = from /\ at' = to /\ UNCHANGED <<upload, setting, runs>>

(* An assignment to session_state. *)
Assigns(from, to, state) ==
    Passes(from, to) /\ ss' = state /\ UNCHANGED <<open, dirs, audits, capture, whole, loads>>

(* main: the upload is imported when its names or sizes are new. *)
Rerun(u, s) ==
    /\ runs < MaxRuns /\ runs' = runs + 1
    /\ upload' = u /\ setting' = s
    /\ at' = IF ss.sig # u.sig THEN "close" ELSE "ensure"
    /\ UNCHANGED <<ss, open, dirs, audits, capture, whole, loads>>

(* A run that has not ended is stopped by the next one. *)
Stop ==
    /\ at # "idle" /\ Passes(at, "idle")
    /\ UNCHANGED <<ss, open, dirs, audits, capture, whole, loads>>

(* _load_dataset: the source of the last data set is closed ... *)
Close ==
    /\ loads < MaxLoads /\ loads' = loads + 1
    /\ open' = open \ {ss.source}
    /\ dirs' = dirs \cup {loads'}
    /\ Passes("close", "remove")
    /\ UNCHANGED <<ss, audits, capture, whole>>

(* ... and its directory is removed ... *)
Remove ==
    /\ dirs' = dirs \ {ss.dir}
    /\ Passes("remove", "import")
    /\ UNCHANGED <<ss, open, audits, capture, whole, loads>>

(* ... then the files are imported and profiled, which may raise ... *)
Import ==
    /\ open' = IF upload.good THEN open \cup {loads} ELSE open
    /\ Passes("import", IF upload.good THEN "sig" ELSE "idle")
    /\ UNCHANGED <<ss, dirs, audits, capture, whole, loads>>

(* ... and then session_state.update assigns one key after the other: data_sig ... *)
AssignSig ==
    /\ ss' = [ss EXCEPT !.sig = upload.sig] /\ whole' = FALSE
    /\ Passes("sig", "dir")
    /\ UNCHANGED <<open, dirs, audits, capture, loads>>

(* ... tmp_dir, source, semantic and messages; ... *)
AssignDir == Assigns("dir", "source", [ss EXCEPT !.dir = loads])

AssignSource ==
    Assigns("source", "semantic", [ss EXCEPT !.source = loads, !.content = upload.content])

AssignSemantic == Assigns("semantic", "messages", [ss EXCEPT !.semantic = loads])

AssignMessages == Assigns("messages", "pop", [ss EXCEPT !.chat = TRUE, !.messages = <<>>])

(* ... the agent goes last. *)
PopAgent ==
    /\ ss' = [ss EXCEPT !.agent = NoAgent] /\ whole' = TRUE
    /\ Passes("pop", "ensure")
    /\ UNCHANGED <<open, dirs, audits, capture, loads>>

(* The script goes on to the chat, or raises when there are no messages. *)
Shown(state) == IF state.chat THEN "ready" ELSE "idle"

(* _ensure_agent: the agent is kept while data_sig and settings are those of
   model_sig; without a source the script ends. *)
EnsureAgent ==
    /\ Passes("ensure", IF ss.source = 0 THEN "idle"
                        ELSE IF ss.model = <<ss.sig, setting>> /\ ss.agent # NoAgent
                        THEN Shown(ss) ELSE "capture")
    /\ UNCHANGED <<ss, open, dirs, audits, capture, whole, loads>>

(* A new row capture, that no agent has yet, ... *)
NewCapture ==
    /\ ss' = [ss EXCEPT !.linked = FALSE] /\ capture' = NoRows
    /\ Passes("capture", "audit")
    /\ UNCHANGED <<open, dirs, audits, whole, loads>>

(* ... an audit store, which makes its directory, ... *)
NewAudit ==
    /\ dirs' = dirs \cup {ss.dir}
    /\ audits' = [d \in DOMAIN audits \cup {ss.dir} |->
                     IF d \in DOMAIN audits /\ (d \in dirs \/ d # ss.dir) THEN audits[d] ELSE 0]
    /\ Passes("audit", "agent")
    /\ UNCHANGED <<ss, open, capture, whole, loads>>

(* ... the agent, for which semantic has to be there, ... *)
NewAgent ==
    LET agent == [source |-> ss.source, semantic |-> ss.semantic, dir |-> ss.dir,
                  setting |-> setting]
    IN  \/ ss.semantic # 0
           /\ Assigns("agent", "model", [ss EXCEPT !.agent = agent, !.linked = TRUE])
        \/ ss.semantic = 0 /\ Assigns("agent", "idle", ss)

(* ... and model_sig. *)
NewModel == Assigns("model", Shown(ss), [ss EXCEPT !.model = <<ss.sig, setting>>])

(* _RowCapture.on_tool_result and SqliteAuditStore.on_tool_result: a call on a
   source that is closed fails; it is recorded, if the database is there. *)
ToolCall(question) ==
    /\ capture' = IF ss.linked /\ ss.agent.source \in open
                  THEN [question |-> question, source |-> ss.agent.source] ELSE capture
    /\ audits' = IF ss.agent.dir \in dirs
                 THEN [audits EXCEPT ![ss.agent.dir] = @ + 1] ELSE audits
    /\ UNCHANGED <<ss, open, dirs, whole, loads>>

(* _run_tool_audited: a tool of the SQL tab. *)
Panel == Passes("ready", "idle") /\ ToolCall(0)

Says(role, rows) ==
    [ss EXCEPT !.messages = Append(@, [role |-> role, rows |-> rows, source |-> ss.source])]

(* A question in the chat. *)
Ask == Assigns("ready", "asked", Says("user", NoRows))

(* Mutant: the rows of the last call are not forgotten. *)
Fresh_Keeps == capture

Fresh == NoRows

(* capture.rows = None *)
Forget ==
    /\ capture' = Fresh
    /\ Passes("asked", "asking")
    /\ UNCHANGED <<ss, open, dirs, audits, whole, loads>>

ToolInTurn == Passes("asking", "called") /\ ToolCall(Asked)

(* The answer, or the error, with the rows to chart. *)
Answer ==
    /\ at \in {"asking", "called"}
    /\ Assigns(at, "idle", Says("assistant", capture))

Next ==
    \/ \E u \in Upload, s \in Setting : Rerun(u, s)
    \/ Stop \/ Close \/ Remove \/ Import
    \/ AssignSig \/ AssignDir \/ AssignSource \/ AssignSemantic \/ AssignMessages \/ PopAgent
    \/ EnsureAgent \/ NewCapture \/ NewAudit \/ NewAgent \/ NewModel
    \/ Panel \/ Ask \/ Forget \/ ToolInTurn \/ Answer

Spec == Init /\ [][Next]_vars

------------------------------------------------------------------------------
(* The rows below an answer were read for its question, from the data that were
   loaded when it was asked. *)
Charted ==
    \A i \in DOMAIN ss.messages :
       LET m == ss.messages[i]
       IN  m.role = "assistant" /\ m.rows # NoRows =>
              /\ m.rows.source = m.source
              /\ m.rows.question = Cardinality({j \in 1 .. i : ss.messages[j].role = "user"})

(* All of session_state is of one load. *)
OneLoad ==
    /\ ss.dir = ss.source /\ ss.semantic = ss.source
    /\ ss.agent # NoAgent =>
          ss.agent.source = ss.source /\ ss.agent.semantic = ss.source /\ ss.agent.dir = ss.source
    /\ \A i \in DOMAIN ss.messages : ss.messages[i].source = ss.source

(* Wherever runs are stopped, what is charted below an answer was read for its question
   from the data loaded then, and no agent reads data that are not loaded; and once a
   load has run to its end, the chat, the agent, its semantic model and its directory
   are of that load, whatever was left by loads that were stopped before. *)
ChartsAreOfTheQuestion ==
    /\ Charted
    /\ ss.agent.source \in open => ss.agent.source = ss.source
    /\ whole => OneLoad

(* The charts are of the data that are loaded. *)
ChartsAreOfTheData == \A i \in DOMAIN ss.messages : ss.messages[i].source = ss.source

(* "Build the agent once per (dataset, model)": the agent that answers was built for
   the model that is chosen. *)
AgentIsOfSetting == at = "ready" => ss.agent.setting = setting

(* "only re-import when the upload actually changes": a session that answers is
   about the files that are uploaded. *)
UploadIsLoaded == at = "ready" => ss.content = upload.content

(* The agent's source is open whenever it may answer from it. *)
SourceIsOpen == at = "ready" => ss.agent.source \in open

(* "Durable, SQLite-backed audit store (survives restarts)": no recorded call is
   lost. *)
AuditIsDurable == \A d \in DOMAIN audits : audits[d] > 0 => d \in dirs

(* The inductive invariant: what an agent has captured in a turn is of the question
   that was asked last; a source is closed before it is replaced; and a load that is
   under way has assigned what comes before the place where it is. *)
Message == [role : {"user", "assistant"}, rows : [question : Nat, source : Nat], source : Nat]

Updating == {"dir", "source", "semantic", "messages", "pop"}

Shaped ==
    /\ ss = [sig |-> ss.sig, dir |-> ss.dir, source |-> ss.source, content |-> ss.content,
             semantic |-> ss.semantic, chat |-> ss.chat, messages |-> ss.messages,
             agent |-> ss.agent, model |-> ss.model, linked |-> ss.linked]
    /\ loads \in Nat /\ ss.source \in 0 .. loads /\ ss.agent.source \in 0 .. loads
    /\ ss.messages \in Seq(Message)
    /\ capture \in [question : Nat, source : Nat]

Loading ==
    /\ 0 \notin open
    /\ at \in {"remove", "import", "sig", "dir", "source"} =>
          /\ ss.source \notin open /\ ss.source < loads /\ ss.agent.source < loads
    /\ at \in Updating => ~whole
    /\ at \in Updating \ {"dir"} => ss.dir = loads
    /\ at \in {"semantic", "messages", "pop"} => ss.source = loads
    /\ at \in {"messages", "pop"} => ss.semantic = loads
    /\ at = "pop" => ss.messages = <<>>

Captured ==
    at \in {"asking", "called"} /\ capture # NoRows =>
        capture.source = ss.source /\ capture.question = Asked

IInv == Shaped /\ Loading /\ Captured /\ ChartsAreOfTheQuestion
==============================================================================
