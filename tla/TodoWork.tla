------------------------------ MODULE TodoWork ------------------------------
(***************************************************************************)
(* One to-do, its assessment and the AI work session on it                 *)
(* (app/api/todos.py with its repositories and services).                  *)
(*                                                                         *)
(* Handlers alternate between database transactions and calls of the AI    *)
(* provider, which take up to a minute; each is one action.  Only the      *)
(* transaction that resets a session is split further, because it reads    *)
(* the session, deletes messages and updates the session without a lock.   *)
(* The provider is external: what it answers is arbitrary.  No state is    *)
(* shared by two to-dos, so there is one; its text is abstracted to what   *)
(* the fingerprint tells apart.                                            *)
(***************************************************************************)
CONSTANTS
    Contents,      \* what title, description, due date and status can be
    Messages,      \* ids of todo_ai_work_messages
    Proc,          \* request threads
    UserText,      \* text the user wrote
    Blank,         \* text of white space: strip() leaves nothing of it
    None

ASSUME DistinctAssumption ==
    /\ UserText # None /\ UserText # Blank /\ Blank # None
    /\ {UserText, Blank, None} \cap Contents = {} /\ None \notin Messages

VARIABLES
    todo,          \* the to-do's content, None once it is deleted
    assessment,    \* its row of todo_ai_assessments, or None
    session,       \* its row of todo_ai_work_sessions, or None
    message,       \* the session's messages, or None
    pc, req        \* each thread's next step, and what it knows

vars == <<todo, assessment, session, message, pc, req>>

\* What a text is about: text of the assistant is about the content it was
\* generated from.  Of messages it does not matter whether they are blank.
Text == Contents \cup {UserText}

Draft == Text \cup {Blank, None}

Phase == {"GATHERING_INFORMATION", "WORKING", "DRAFT_READY"}

Assessment == [of: Contents, fingerprint: Contents, steps: BOOLEAN]

Session == [fingerprint: Contents, phase: Phase, draft: Draft]

Turn == [phase: Phase, draft: Contents \cup {Blank, None}]

Request == [content: Contents \cup {None}, wipe: SUBSET Messages,
            message: Messages \cup {None}, turn: Turn \cup {None}]

NoRequest == [content |-> None, wipe |-> {}, message |-> None, turn |-> None]

Stage == {"idle", "assess", "find", "create", "wipe", "reset", "open",
          "append", "reply", "remove", "apply"}

TypeOK ==
    /\ todo \in Contents \cup {None}
    /\ assessment \in Assessment \cup {None}
    /\ session \in Session \cup {None}
    /\ message \in [Messages -> Text \cup {None}]
    /\ pc \in [Proc -> Stage]
    /\ req \in [Proc -> Request]

-----------------------------------------------------------------------------
(* Definitions called Mutant_... are deliberate mistakes that nothing refers *)
(* to: each replaces the definition after it to see a property fail.         *)

Goto(p, stage) == pc' = [pc EXCEPT ![p] = stage]

Return(p) ==
    /\ Goto(p, "idle")
    /\ req' = [req EXCEPT ![p] = NoRequest]

\* Ids are never used twice, not even while only a handler remembers one.
Fresh(m) ==
    message[m] = None /\ \A p \in Proc : req[p].message # m /\ m \notin req[p].wipe

Listed == {m \in Messages : message[m] # None}

\* A handler that ends without another write: a refusal (404, 409), a database
\* error (its transaction rolls back), a crash.
Fail(p) ==
    /\ pc[p] \notin {"idle", "reply"}
    /\ Return(p)
    /\ UNCHANGED <<todo, assessment, session, message>>

-----------------------------------------------------------------------------
(* PUT and DELETE /todos/{id}: one statement each. *)

\* Nothing but the content changes: assessment and session keep their
\* fingerprint.
UpdateTodo ==
    \E c \in Contents :
        /\ todo # None
        /\ todo' = c
        /\ UNCHANGED <<assessment, session, message, pc, req>>

\* ON DELETE CASCADE.
DeleteTodo ==
    /\ todo # None
    /\ todo' = None /\ assessment' = None /\ session' = None
    /\ message' = [m \in Messages |-> None]
    /\ UNCHANGED <<pc, req>>

-----------------------------------------------------------------------------
(* POST /todos/ai-assess *)

\* get_todos_for_assessment
Assess(p) ==
    /\ pc[p] = "idle"
    /\ todo # None
    /\ req' = [req EXCEPT ![p].content = todo]
    /\ Goto(p, "assess")
    /\ UNCHANGED <<todo, assessment, session, message>>

Mutant_FingerprintWhenSaved(content) ==
    {[of |-> content, fingerprint |-> todo, steps |-> s] : s \in BOOLEAN}

\* The provider's answer, or the rules if it fails: whether there are steps
\* for the AI is up to them, the fingerprint is that of what they looked at.
Assessed(content) ==
    {[of |-> content, fingerprint |-> content, steps |-> s] : s \in BOOLEAN}

Mutant_UpsertAnyway(p) ==
    \E a \in Assessed(req[p].content) :
        /\ pc[p] = "assess"
        /\ assessment' = a
        /\ Return(p)
        /\ UNCHANGED <<todo, session, message>>

\* upsert_todo_assessments overwrites whatever is there; its foreign key fails
\* if the to-do is gone (Fail).
SaveAssessment(p) ==
    \E a \in Assessed(req[p].content) :
        /\ pc[p] = "assess"
        /\ todo # None
        /\ assessment' = a
        /\ Return(p)
        /\ UNCHANGED <<todo, session, message>>

\* add_staleness
Stale == assessment.fingerprint # todo

-----------------------------------------------------------------------------
(* POST /todos/{id}/ai-session *)

\* get_todo_work_context and validate_work_context
Workable ==
    todo # None /\ assessment # None /\ ~Stale /\ assessment.steps

Start(p) ==
    /\ pc[p] = "idle"
    /\ Workable
    /\ req' = [req EXCEPT ![p].content = todo]
    /\ Goto(p, "find")
    /\ UNCHANGED <<todo, assessment, session, message>>

\* get_or_create_work_session looks for the session ...
FindSession(p) ==
    /\ pc[p] = "find"
    /\ Goto(p, CASE session = None -> "create"
                 [] session # None /\ session.fingerprint # req[p].content -> "wipe"
                 [] session # None /\ session.fingerprint = req[p].content -> "open")
    /\ UNCHANGED <<todo, assessment, session, message, req>>

NewSession(p) ==
    [fingerprint |-> req[p].content, phase |-> "GATHERING_INFORMATION", draft |-> None]

\* ... and inserts one, unless somebody else has (UNIQUE: Fail), ...
CreateSession(p) ==
    /\ pc[p] = "create"
    /\ todo # None /\ session = None
    /\ session' = NewSession(p)
    /\ Goto(p, "open")
    /\ UNCHANGED <<todo, assessment, message, req>>

\* ... or deletes the messages its DELETE sees, which waits for another DELETE
\* of the same rows, ...
WipeMessages(p) ==
    /\ pc[p] = "wipe"
    /\ \A q \in Proc : req[q].wipe \cap Listed = {}
    /\ req' = [req EXCEPT ![p].wipe = Listed]
    /\ Goto(p, "reset")
    /\ UNCHANGED <<todo, assessment, session, message>>

\* ... and updates the session, whatever it is by now: the commit.
ResetSession(p) ==
    /\ pc[p] = "reset"
    /\ session # None
    /\ session' = NewSession(p)
    /\ message' = [m \in Messages |-> IF m \in req[p].wipe THEN None ELSE message[m]]
    /\ req' = [req EXCEPT ![p].wipe = {}]
    /\ Goto(p, "open")
    /\ UNCHANGED <<todo, assessment>>

\* Only a session without messages is opened with a turn of the assistant.
OpenSession(p) ==
    /\ pc[p] = "open"
    /\ IF Listed = {} THEN Goto(p, "reply") /\ UNCHANGED req ELSE Return(p)
    /\ UNCHANGED <<todo, assessment, session, message>>

-----------------------------------------------------------------------------
(* POST /todos/{id}/ai-session/messages *)

\* The same validation; the session is looked up without its fingerprint.
Continue(p) ==
    /\ pc[p] = "idle"
    /\ Workable
    /\ req' = [req EXCEPT ![p].content = todo]
    /\ Goto(p, "append")
    /\ UNCHANGED <<todo, assessment, session, message>>

\* get_work_session and append_work_message
AppendMessage(p) ==
    \E m \in Messages :
        /\ pc[p] = "append"
        /\ session # None
        /\ Fresh(m)
        /\ message' = [message EXCEPT ![m] = UserText]
        /\ req' = [req EXCEPT ![p].message = m]
        /\ Goto(p, "reply")
        /\ UNCHANGED <<todo, assessment, session>>

-----------------------------------------------------------------------------
(* The provider's turn, of either handler. *)

Asking(raw) == [raw EXCEPT !.phase = "GATHERING_INFORMATION"]

Mutant_AnyPhase(raw) ==
    IF raw.phase = "DRAFT_READY" /\ raw.draft \in {Blank, None} THEN Asking(raw) ELSE raw

Mutant_CheckedBeforeStrip(raw) ==
    IF raw.phase \notin Phase \/ (raw.phase = "DRAFT_READY" /\ raw.draft = None)
    THEN Asking(raw) ELSE raw

\* normalize_work_turn: a phase nobody knows, and a ready draft of which strip()
\* leaves nothing, become a question for more information.
Normalized(raw) ==
    IF raw.phase \notin Phase \/ (raw.phase = "DRAFT_READY" /\ raw.draft \in {Blank, None})
    THEN Asking(raw) ELSE raw

\* reply: an answer to the content that was read when the handler started.
Reply(p) ==
    \E raw \in [phase: Phase \cup {None}, draft: {req[p].content, Blank, None}] :
        /\ pc[p] = "reply"
        /\ req' = [req EXCEPT ![p].turn = Normalized(raw)]
        /\ Goto(p, "apply")
        /\ UNCHANGED <<todo, assessment, session, message>>

\* reply raises an HTTPException: no key, a timeout, a refusal, no valid turn.
ReplyFails(p) ==
    /\ pc[p] = "reply"
    /\ IF req[p].message = None THEN Return(p) ELSE Goto(p, "remove") /\ UNCHANGED req
    /\ UNCHANGED <<todo, assessment, session, message>>

\* An answer whose body is not JSON raises another exception, which is not
\* handled.  A crash has the same effect.
ReplyRaises(p) ==
    /\ pc[p] = "reply"
    /\ Return(p)
    /\ UNCHANGED <<todo, assessment, session, message>>

\* delete_work_message
RemoveMessage(p) ==
    /\ pc[p] = "remove"
    /\ message' = [message EXCEPT ![req[p].message] = None]
    /\ Return(p)
    /\ UNCHANGED <<todo, assessment, session>>

\* apply_assistant_turn: whatever the session is by now, 404 (Fail) if it is gone.
ApplyTurn(p) ==
    \E m \in Messages :
        /\ pc[p] = "apply"
        /\ session # None
        /\ Fresh(m)
        /\ session' = [session EXCEPT !.phase = req[p].turn.phase, !.draft = req[p].turn.draft]
        /\ message' = [message EXCEPT ![m] = req[p].content]
        /\ Return(p)
        /\ UNCHANGED <<todo, assessment>>

-----------------------------------------------------------------------------
\* PUT /todos/{id}/ai-session/draft: update_work_draft, valid or stale alike.
\* The length of the text is checked before strip(): a blank draft is accepted.
SaveDraft ==
    \E text \in {UserText, Blank} :
        /\ session # None
        /\ session' = [session EXCEPT !.phase = "DRAFT_READY", !.draft = text]
        /\ UNCHANGED <<todo, assessment, message, pc, req>>

\* The to-do has been created (query_post_todo), nothing else has.
Init ==
    /\ todo \in Contents
    /\ assessment = None /\ session = None
    /\ message = [m \in Messages |-> None]
    /\ pc = [p \in Proc |-> "idle"]
    /\ req = [p \in Proc |-> NoRequest]

Handler(p) ==
    \/ Assess(p) \/ SaveAssessment(p)
    \/ Start(p) \/ FindSession(p) \/ CreateSession(p) \/ WipeMessages(p) \/ ResetSession(p)
    \/ OpenSession(p)
    \/ Continue(p) \/ AppendMessage(p)
    \/ Reply(p) \/ ReplyFails(p) \/ ReplyRaises(p) \/ RemoveMessage(p) \/ ApplyTurn(p)
    \/ Fail(p)

Next ==
    \/ UpdateTodo \/ DeleteTodo \/ SaveDraft
    \/ \E p \in Proc : Handler(p)

Spec == Init /\ [][Next]_vars

-----------------------------------------------------------------------------
(* Properties. *)

\* An answer that arrives after the to-do was deleted brings nothing back: no
\* assessment, session or message of a deleted to-do exists.
NothingOutlivesTodo ==
    todo = None => assessment = None /\ session = None /\ Listed = {}

\* An assessment that is not shown as stale is about the to-do as it is, also
\* when the to-do was edited while it was being assessed, or when assessments
\* overtook each other.
FreshnessIsReal ==
    assessment # None /\ ~Stale => assessment.of = todo

\* A session that says a draft is ready, although there is none to read: the PDF
\* is refused.
ReadyInVain ==
    session # None /\ session.phase = "DRAFT_READY" /\ session.draft \in {Blank, None}

\* Only the user makes a session ready in vain, by saving a blank draft.  What a
\* handler writes - a reset, or an answer of the provider, whatever it was and
\* however late it comes - leaves no such session, also over a blank draft.
OnlyUsersBlankDrafts ==
    [][session' # session /\ ReadyInVain' => session'.draft = Blank /\ UNCHANGED pc]_vars
=============================================================================
