--------------------------- MODULE TodoWorkProofs ---------------------------
(***************************************************************************)
(* Proofs about TodoWork, for any contents, messages and threads: what an   *)
(* answer of the provider can do although it comes after edits, resets and *)
(* deletions that the handler which asked for it has not seen.             *)
(***************************************************************************)
EXTENDS TodoWork, TLAPS

\* What a handler that has started knows: the content it read, a message it can
\* take back, and a turn that says a draft is ready only together with one that
\* can be read.
HandlersKnow ==
    \A p \in Proc :
        /\ pc[p] # "idle" => req[p].content \in Contents
        /\ pc[p] = "remove" => req[p].message \in Messages
        /\ pc[p] = "apply" =>
             /\ req[p].turn \in Turn
             /\ req[p].turn.phase = "DRAFT_READY" => req[p].turn.draft \in Contents

\* An assessment carries the fingerprint of the content it is about.
MarksWhatItSaw == assessment # None => assessment.of = assessment.fingerprint

IInv == /\ TypeOK /\ HandlersKnow /\ MarksWhatItSaw
        /\ NothingOutlivesTodo

LEMMA NoRequestType == NoRequest \in Request
  BY DEF NoRequest, Request

\* The record of a new session.
LEMMA NewSessionType ==
  ASSUME NEW p \in Proc, req[p].content \in Contents
  PROVE  NewSession(p) \in Session /\ NewSession(p).phase # "DRAFT_READY"
  BY DEF NewSession, Session, Phase, Draft

\* What normalize_work_turn returns for whatever the provider answered.
LEMMA NormalizedIsATurn ==
  ASSUME NEW c \in Contents, NEW raw \in [phase : Phase \cup {None}, draft : {c, Blank, None}]
  PROVE  /\ Normalized(raw) \in Turn
         /\ Normalized(raw).phase = "DRAFT_READY" => Normalized(raw).draft \in Contents
  BY DEF Normalized, Asking, Turn, Phase

\* A step that only moves one thread, to a stage whose knowledge it has.
LEMMA MoveInv ==
  ASSUME IInv, NEW p \in Proc, NEW s \in Stage, NEW r \in Request,
         UNCHANGED <<todo, assessment, session, message>>,
         pc' = [pc EXCEPT ![p] = s], req' = [req EXCEPT ![p] = r],
         s # "idle" => r.content \in Contents,
         s = "remove" => r.message \in Messages,
         s = "apply" => r.turn \in Turn /\ (r.turn.phase = "DRAFT_READY" => r.turn.draft \in Contents)
  PROVE  IInv'
<1>1. TypeOK'
  BY DEF IInv, TypeOK
<1>2. HandlersKnow'
  BY DEF IInv, TypeOK, HandlersKnow
<1> QED BY <1>1, <1>2 DEF IInv, MarksWhatItSaw, NothingOutlivesTodo, Listed

\* The steps of one thread that write nothing.
LEMMA ThreadInv ==
  ASSUME IInv, NEW p \in Proc,
         \/ Fail(p) \/ Assess(p) \/ Start(p) \/ Continue(p) \/ FindSession(p) \/ WipeMessages(p)
         \/ OpenSession(p) \/ Reply(p) \/ ReplyFails(p) \/ ReplyRaises(p)
  PROVE  IInv'
<1> USE DEF IInv
<1>1. req[p] \in Request /\ req = [req EXCEPT ![p] = req[p]]
  BY DEF TypeOK
<1>2. CASE Fail(p) \/ ReplyRaises(p)
  BY <1>2, MoveInv, NoRequestType DEF Fail, ReplyRaises, Return, Goto, Stage
<1>3. CASE Assess(p) \/ Start(p) \/ Continue(p)
  <2>1. PICK s \in {"assess", "find", "append"} :
          /\ pc' = [pc EXCEPT ![p] = s]
          /\ req' = [req EXCEPT ![p] = [req[p] EXCEPT !.content = todo]]
          /\ todo \in Contents
          /\ UNCHANGED <<todo, assessment, session, message>>
    BY <1>3, <1>1 DEF Assess, Start, Continue, Workable, Goto, TypeOK
  <2>2. [req[p] EXCEPT !.content = todo] \in Request /\ [req[p] EXCEPT !.content = todo].content = todo
    BY <1>1, <2>1 DEF Request
  <2> HIDE DEF IInv
  <2> QED BY <2>1, <2>2, MoveInv DEF Stage
<1>4. CASE FindSession(p)
  <2>1. PICK s \in {"create", "wipe", "open"} : pc' = [pc EXCEPT ![p] = s]
    BY <1>4 DEF FindSession, Goto
  <2>2. req[p].content \in Contents
    BY <1>4 DEF FindSession, HandlersKnow
  <2> QED BY <1>1, <1>4, <2>1, <2>2, MoveInv DEF FindSession, Stage
<1>5. CASE WipeMessages(p)
  <2> DEFINE r == [req[p] EXCEPT !.wipe = Listed]
  <2>1. r \in Request /\ r.content = req[p].content /\ req[p].content \in Contents
    BY <1>1, <1>5 DEF Request, Listed, WipeMessages, HandlersKnow
  <2>2. req' = [req EXCEPT ![p] = r] /\ pc' = [pc EXCEPT ![p] = "reset"]
        /\ UNCHANGED <<todo, assessment, session, message>>
    BY <1>5 DEF WipeMessages, Goto
  <2> HIDE DEF r
  <2> QED BY <2>1, <2>2, MoveInv DEF Stage
<1>6. CASE OpenSession(p)
  <2>1. req[p].content \in Contents
    BY <1>6 DEF OpenSession, HandlersKnow
  <2> QED BY <1>1, <1>6, <2>1, MoveInv, NoRequestType DEF OpenSession, Return, Goto, Stage
<1>7. CASE Reply(p)
  <2>1. req[p].content \in Contents
    BY <1>7 DEF Reply, HandlersKnow
  <2> PICK raw \in [phase : Phase \cup {None}, draft : {req[p].content, Blank, None}] :
        /\ req' = [req EXCEPT ![p].turn = Normalized(raw)]
        /\ pc' = [pc EXCEPT ![p] = "apply"]
        /\ UNCHANGED <<todo, assessment, session, message>>
    BY <1>7 DEF Reply, Goto
  <2> DEFINE N == Normalized(raw)
             r == [req[p] EXCEPT !.turn = N]
  <2>2. N \in Turn /\ (N.phase = "DRAFT_READY" => N.draft \in Contents)
    BY <2>1, NormalizedIsATurn
  <2> HIDE DEF N
  <2>3. r \in Request /\ r.content = req[p].content /\ r.turn = N
    BY <1>1, <2>2 DEF Request
  <2>4. req' = [req EXCEPT ![p] = r]
    BY DEF N
  <2> HIDE DEF r
  <2> QED BY <2>1, <2>2, <2>3, <2>4, MoveInv DEF Stage
<1>8. CASE ReplyFails(p)
  <2>1. req[p].content \in Contents
    BY <1>8 DEF ReplyFails, HandlersKnow
  <2>2. req[p].message # None => req[p].message \in Messages
    BY <1>1 DEF Request
  <2> QED BY <1>1, <1>8, <2>1, <2>2, MoveInv, NoRequestType DEF ReplyFails, Return, Goto, Stage
<1> QED BY <1>2, <1>3, <1>4, <1>5, <1>6, <1>7, <1>8

\* An assessment is saved with the fingerprint of what was assessed, and only
\* while the to-do exists.
LEMMA SaveAssessmentInv ==
  ASSUME IInv, NEW p \in Proc, SaveAssessment(p)
  PROVE  IInv'
<1> USE DEF IInv
<1>1. PICK a \in Assessed(req[p].content) :
        assessment' = a /\ Return(p) /\ todo # None /\ UNCHANGED <<todo, session, message>>
  BY DEF SaveAssessment
<1>2. req[p].content \in Contents
  BY DEF SaveAssessment, HandlersKnow
<1>3. a \in Assessment /\ a.of = a.fingerprint
  BY <1>2 DEF Assessed, Assessment
<1>4. TypeOK'
  BY <1>1, <1>3, NoRequestType DEF TypeOK, Return, Goto, Stage
<1>5. HandlersKnow'
  BY <1>1 DEF HandlersKnow, Return, Goto, TypeOK
<1> QED BY <1>1, <1>3, <1>4, <1>5
     DEF MarksWhatItSaw, NothingOutlivesTodo, Listed

LEMMA CreateSessionInv ==
  ASSUME IInv, NEW p \in Proc, CreateSession(p)
  PROVE  IInv'
<1> USE DEF IInv
<1>1. /\ todo # None /\ session' = NewSession(p) /\ pc' = [pc EXCEPT ![p] = "open"]
      /\ UNCHANGED <<todo, assessment, message, req>> /\ req[p].content \in Contents
  BY DEF CreateSession, Goto, HandlersKnow
<1>2. NewSession(p) \in Session /\ NewSession(p).phase # "DRAFT_READY"
  BY <1>1, NewSessionType
<1>3. TypeOK'
  BY <1>1, <1>2 DEF TypeOK, Stage
<1>4. HandlersKnow'
  BY <1>1 DEF HandlersKnow, TypeOK
<1> QED BY <1>1, <1>2, <1>3, <1>4
     DEF MarksWhatItSaw, NothingOutlivesTodo, Listed

LEMMA ResetSessionInv ==
  ASSUME IInv, NEW p \in Proc, ResetSession(p)
  PROVE  IInv'
<1> USE DEF IInv
<1>1. /\ todo # None /\ session' = NewSession(p) /\ pc' = [pc EXCEPT ![p] = "open"]
      /\ message' = [m \in Messages |-> IF m \in req[p].wipe THEN None ELSE message[m]]
      /\ req' = [req EXCEPT ![p].wipe = {}]
      /\ UNCHANGED <<todo, assessment>> /\ req[p].content \in Contents
  BY DEF ResetSession, Goto, HandlersKnow, NothingOutlivesTodo
<1>2. NewSession(p) \in Session /\ NewSession(p).phase # "DRAFT_READY"
  BY <1>1, NewSessionType
<1>3. /\ req'[p].content = req[p].content /\ pc'[p] = "open"
      /\ \A q \in Proc : q # p => req'[q] = req[q] /\ pc'[q] = pc[q]
  BY <1>1 DEF TypeOK, Request
<1>4. TypeOK'
  <2>1. req' \in [Proc -> Request]
    BY <1>1 DEF TypeOK, Request
  <2> QED BY <1>1, <1>2, <2>1 DEF TypeOK, Stage
<1>5. HandlersKnow'
  BY <1>1, <1>3 DEF HandlersKnow
<1> QED BY <1>1, <1>2, <1>4, <1>5 DEF MarksWhatItSaw, NothingOutlivesTodo

LEMMA AppendMessageInv ==
  ASSUME IInv, NEW p \in Proc, AppendMessage(p)
  PROVE  IInv'
<1> USE DEF IInv
<1>1. PICK m \in Messages :
        /\ todo # None /\ pc' = [pc EXCEPT ![p] = "reply"]
        /\ message' = [message EXCEPT ![m] = UserText]
        /\ req' = [req EXCEPT ![p].message = m]
        /\ UNCHANGED <<todo, assessment, session>> /\ req[p].content \in Contents
  BY DEF AppendMessage, Goto, HandlersKnow, NothingOutlivesTodo
<1>2. /\ req'[p].content = req[p].content /\ pc'[p] = "reply"
      /\ \A q \in Proc : q # p => req'[q] = req[q] /\ pc'[q] = pc[q]
  BY <1>1 DEF TypeOK, Request
<1>3. TypeOK'
  <2>1. req' \in [Proc -> Request]
    BY <1>1 DEF TypeOK, Request
  <2> QED BY <1>1, <2>1 DEF TypeOK, Stage, Text
<1>4. HandlersKnow'
  BY <1>1, <1>2 DEF HandlersKnow
<1> QED BY <1>1, <1>3, <1>4 DEF MarksWhatItSaw, NothingOutlivesTodo

LEMMA RemoveMessageInv ==
  ASSUME IInv, NEW p \in Proc, RemoveMessage(p)
  PROVE  IInv'
<1> USE DEF IInv
<1>1. /\ message' = [message EXCEPT ![req[p].message] = None]
      /\ req[p].message \in Messages
      /\ Return(p) /\ UNCHANGED <<todo, assessment, session>>
  BY DEF RemoveMessage, HandlersKnow
<1>2. TypeOK'
  BY <1>1, NoRequestType DEF TypeOK, Return, Goto, Stage
<1>3. HandlersKnow'
  BY <1>1 DEF HandlersKnow, Return, Goto, TypeOK
<1>4. NothingOutlivesTodo'
  BY <1>1 DEF NothingOutlivesTodo, Listed, TypeOK
<1> QED BY <1>1, <1>2, <1>3, <1>4 DEF MarksWhatItSaw

\* The turn is written to whatever session there is by now.
LEMMA ApplyTurnInv ==
  ASSUME IInv, NEW p \in Proc, ApplyTurn(p)
  PROVE  IInv'
<1> USE DEF IInv
<1>1. PICK m \in Messages :
        /\ session # None
        /\ session' = [session EXCEPT !.phase = req[p].turn.phase, !.draft = req[p].turn.draft]
        /\ message' = [message EXCEPT ![m] = req[p].content]
        /\ Return(p) /\ UNCHANGED <<todo, assessment>>
        /\ req[p].content \in Contents /\ req[p].turn \in Turn
  BY DEF ApplyTurn, HandlersKnow
<1>2. session \in Session /\ todo # None
  BY <1>1 DEF TypeOK, NothingOutlivesTodo
<1>3. /\ session' \in Session /\ session'.phase = req[p].turn.phase
      /\ session'.draft = req[p].turn.draft
  BY <1>1, <1>2 DEF Session, Turn, Text, Draft
<1>4. TypeOK'
  <2>1. message' \in [Messages -> Text \cup {None}]
    BY <1>1 DEF TypeOK, Text
  <2> QED BY <1>1, <1>3, <2>1, NoRequestType DEF TypeOK, Return, Goto, Stage
<1>5. HandlersKnow'
  BY <1>1 DEF HandlersKnow, Return, Goto, TypeOK
<1> QED BY <1>1, <1>2, <1>3, <1>4, <1>5 DEF MarksWhatItSaw, NothingOutlivesTodo

\* The one-statement requests that no thread has to wait for.
LEMMA StatementInv ==
  ASSUME IInv, UpdateTodo \/ DeleteTodo \/ SaveDraft
  PROVE  IInv'
<1> USE DEF IInv
<1>1. CASE UpdateTodo
  BY <1>1, DistinctAssumption
  DEF UpdateTodo, TypeOK, HandlersKnow, MarksWhatItSaw, NothingOutlivesTodo, Listed
<1>2. CASE DeleteTodo
  BY <1>2
  DEF DeleteTodo, TypeOK, HandlersKnow, MarksWhatItSaw, NothingOutlivesTodo, Listed
<1>3. CASE SaveDraft
  <2>1. PICK text \in {UserText, Blank} :
          /\ session \in Session /\ todo # None
          /\ session' = [session EXCEPT !.phase = "DRAFT_READY", !.draft = text]
          /\ UNCHANGED <<todo, assessment, message, pc, req>>
    BY <1>3 DEF SaveDraft, TypeOK, NothingOutlivesTodo
  <2>2. session' \in Session
    BY <2>1 DEF Session, Phase, Text, Draft
  <2> QED BY <2>1, <2>2, DistinctAssumption
       DEF TypeOK, HandlersKnow, MarksWhatItSaw, NothingOutlivesTodo, Listed
<1> QED BY <1>1, <1>2, <1>3

-----------------------------------------------------------------------------
LEMMA InitInv == Init => IInv
  BY NoRequestType
  DEF Init, IInv, TypeOK, Stage, HandlersKnow, MarksWhatItSaw, NothingOutlivesTodo, Listed

LEMMA NextInv == IInv /\ [Next]_vars => IInv'
<1> SUFFICES ASSUME IInv, [Next]_vars PROVE IInv'
  OBVIOUS
<1>1. ASSUME NEW p \in Proc, Handler(p) PROVE IInv'
  BY <1>1, ThreadInv, SaveAssessmentInv, CreateSessionInv, ResetSessionInv, AppendMessageInv,
     RemoveMessageInv, ApplyTurnInv DEF Handler
<1>2. CASE UpdateTodo \/ DeleteTodo \/ SaveDraft
  BY <1>2, StatementInv
<1>3. CASE UNCHANGED vars
  BY <1>3 DEF vars, IInv, TypeOK, HandlersKnow, MarksWhatItSaw, NothingOutlivesTodo, Listed
<1> QED BY <1>1, <1>2, <1>3 DEF Next

LEMMA Invariance == Spec => []IInv
  BY InitInv, NextInv, PTL DEF Spec

\* Every variable keeps its type, whatever the provider answers and when.
THEOREM TypeCorrect == Spec => []TypeOK
<1>1. IInv => TypeOK
  BY DEF IInv
<1> QED BY <1>1, Invariance, PTL

\* No late answer, append or reset brings back an assessment, a session or a
\* message of a deleted to-do.
THEOREM DeletedStaysDeleted == Spec => []NothingOutlivesTodo
<1>1. IInv => NothingOutlivesTodo
  BY DEF IInv
<1> QED BY <1>1, Invariance, PTL

\* An assessment shown as fresh was made from the content the to-do has now,
\* however edits and overlapping assessments interleave.
THEOREM FreshIsAboutNow == Spec => []FreshnessIsReal
<1>1. IInv => FreshnessIsReal
  BY DEF IInv, MarksWhatItSaw, FreshnessIsReal, Stale
<1> QED BY <1>1, Invariance, PTL

\* A handler writes a session in three places only: with a new one, whose phase
\* asks for information, or with a turn whose ready draft can be read.
LEMMA HandlersLeaveReadable ==
  ASSUME IInv, NEW p \in Proc, Handler(p), session' # session
  PROVE  ~ReadyInVain'
<1> USE DEF IInv
<1>1. CASE CreateSession(p) \/ ResetSession(p)
  <2>1. session' = NewSession(p)
    BY <1>1 DEF CreateSession, ResetSession
  <2>2. req[p].content \in Contents
    BY <1>1 DEF CreateSession, ResetSession, HandlersKnow
  <2> QED BY <2>1, <2>2, NewSessionType DEF ReadyInVain
<1>2. CASE ApplyTurn(p)
  <2>1. /\ session \in Session
        /\ session' = [session EXCEPT !.phase = req[p].turn.phase, !.draft = req[p].turn.draft]
        /\ req[p].turn.phase = "DRAFT_READY" => req[p].turn.draft \in Contents
    BY <1>2 DEF ApplyTurn, HandlersKnow, TypeOK
  <2>2. session'.phase = req[p].turn.phase /\ session'.draft = req[p].turn.draft
    BY <2>1 DEF Session
  <2> QED BY <2>1, <2>2, DistinctAssumption DEF ReadyInVain
<1> QED
  BY <1>1, <1>2 DEF Handler, Assess, SaveAssessment, Start, FindSession, WipeMessages,
     OpenSession, Continue, AppendMessage, Reply, ReplyFails, ReplyRaises, RemoveMessage, Fail

\* Only a user who saves a blank draft makes a session ready with nothing to
\* read: no reset and no answer of the provider does, whatever it was, and
\* whatever happened to the session while it was under way.
THEOREM HandlersGiveDrafts == Spec => OnlyUsersBlankDrafts
<1>1. ASSUME IInv, [Next]_vars, session' # session, ReadyInVain'
      PROVE  session'.draft = Blank /\ UNCHANGED pc
  <2>1. CASE SaveDraft
    <3>1. PICK text \in {UserText, Blank} :
            /\ session \in Session
            /\ session' = [session EXCEPT !.phase = "DRAFT_READY", !.draft = text]
            /\ UNCHANGED pc
      BY <1>1, <2>1 DEF SaveDraft, IInv, TypeOK
    <3>2. session'.draft = text
      BY <3>1 DEF Session
    <3> QED BY <1>1, <3>1, <3>2, DistinctAssumption DEF ReadyInVain
  <2>2. CASE UpdateTodo \/ DeleteTodo \/ UNCHANGED vars
    BY <1>1, <2>2 DEF UpdateTodo, DeleteTodo, vars, ReadyInVain
  <2>3. CASE \E p \in Proc : Handler(p)
    BY <1>1, <2>3, HandlersLeaveReadable
  <2> QED BY <1>1, <2>1, <2>2, <2>3 DEF Next
<1>2. IInv /\ [Next]_vars => [session' # session /\ ReadyInVain'
                                => session'.draft = Blank /\ UNCHANGED pc]_vars
  BY <1>1
<1> QED BY <1>2, Invariance, PTL DEF Spec, OnlyUsersBlankDrafts
=============================================================================
