--------------------------- MODULE BankFeedProofs ---------------------------
(***************************************************************************)
(* Proofs about BankFeed.  NothingIsLost is not inductive: that a payment  *)
(* is in the inbox when the watermark passes it follows from what the sync *)
(* that moves the watermark has seen, which IInv records for every sync    *)
(* under way.                                                              *)
(***************************************************************************)
EXTENDS BankFeed, FiniteSetTheorems, TLAPS

Active(p) == pc[p] # "idle"

\* A sync knows what the bank reported when it asked: since then payments can
\* only have been reported under dates close to its own start.
Covered(p, x) ==
    \/ UpToDate(x) \/ x \in cut \/ ~bank[x].usable
    \/ bank[x].day < req[p].from
    \/ bank[x].day >= req[p].at - Late

\* A sync ends at most Slow days after its start.
Timely ==
    \A p \in Proc : Active(p) => req[p].at <= today /\ today <= req[p].at + Slow

\* A sync reaches back at least as far as the next one will have to.
ReachesBack ==
    \A p \in Proc : Active(p) =>
        req[p].from <= (IF last = None THEN today ELSE last) - Overlap

\* What a sync has dealt with, account by account.
Processed ==
    \A p \in Proc, x \in Payments :
        Active(p) /\ bank[x] # None /\ AccountOf[x] \notin req[p].accounts \cup {req[p].account}
            => Covered(p, x)

\* What it has fetched and not saved yet.
Fetched ==
    \A p \in Proc, x \in Payments :
        pc[p] = "save" /\ bank[x] # None /\ AccountOf[x] = req[p].account
            => req[p].got[x] = bank[x] \/ Covered(p, x)

\* An answer is what the bank reports, or what it reported before a booking.
AnswersAreReports ==
    \A p \in Proc, x \in Payments :
        req[p].got[x] # None /\ req[p].got[x].booked => req[p].got[x] = bank[x]

Stages ==
    \A p \in Proc :
        /\ pc[p] # "save" => req[p].account = None
        /\ pc[p] = "synced" => req[p].accounts = {}

Lost(x) == ~UpToDate(x) /\ ~InReach(x) /\ ~BeforeOrigin(x)

\* NothingIsLost, leaving aside who else is in a row.
NoReportMissed ==
    \A x \in Payments : bank[x] # None /\ Lost(x) => x \in cut \/ ~bank[x].usable

\* A payment goes into no row but its own or one of payments that look like it.
RowsAreTheirs == \A r \in row : \E report \in Report : r[1] = Fingerprint(r[2], report)

OriginIsFirst == last = None <=> origin = None

IInv ==
    /\ TypeOK /\ Timely /\ ReachesBack /\ Stages /\ OriginIsFirst
    /\ AnswersAreReports /\ Processed /\ Fetched
    /\ NoReportMissed /\ BookedRowsAreReal /\ RowsAreTheirs

-----------------------------------------------------------------------------
LEMMA NoneIsNoValue == None \notin Accounts /\ None \notin Payments /\ None \notin Int
  BY NoneAssumption

LEMMA NoRequestType == NoRequest \in Request
  BY DEF NoRequest, Request, Nothing

LEMMA FingerprintType ==
  ASSUME NEW x \in Payments, NEW r \in Report
  PROVE  Fingerprint(x, r) \in Keys
  BY FeedAssumption DEF Fingerprint, Keys, Looks, Report

LEMMA InitInv == Init => IInv
<1> SUFFICES ASSUME Init PROVE IInv
  OBVIOUS
<1>1. TypeOK
  BY FeedAssumption, NoRequestType DEF Init, TypeOK, Nothing
<1>2. /\ Timely /\ ReachesBack /\ Processed /\ Stages
  BY DEF Init, Timely, ReachesBack, Processed, Stages, Active, NoRequest
<1>3. Fetched /\ AnswersAreReports
  BY DEF Init, Fetched, AnswersAreReports, NoRequest, Nothing
<1>4. OriginIsFirst /\ NoReportMissed /\ BookedRowsAreReal /\ RowsAreTheirs
  BY DEF Init, OriginIsFirst, NoReportMissed, BookedRowsAreReal, RowsAreTheirs, Nothing
<1> QED BY <1>1, <1>2, <1>3, <1>4 DEF IInv

LEMMA SyncConnectionInv ==
  ASSUME IInv, NEW p \in Proc, SyncConnection(p)
  PROVE  IInv'
<1> DEFINE r == [NoRequest EXCEPT !.from = DateFrom, !.at = today, !.accounts = Accounts]
<1>1. /\ TypeOK /\ pc[p] = "idle"
      /\ req' = [req EXCEPT ![p] = r]
      /\ pc' = [pc EXCEPT ![p] = "fetch"]
      /\ UNCHANGED <<today, bank, row, settled, last, origin, cut>>
  BY DEF IInv, SyncConnection, Goto, store
<1>2. DateFrom \in Int /\ today \in Nat
  BY <1>1, FeedAssumption DEF TypeOK, DateFrom
<1>3. r \in Request /\ r.from = DateFrom /\ r.at = today /\ r.accounts = Accounts
      /\ r.account = None /\ r.got = Nothing
  BY <1>2 DEF Request, NoRequest, Nothing
<1>4. req'[p] = r /\ \A q \in Proc \ {p} : req'[q] = req[q] /\ pc'[q] = pc[q]
  BY <1>1 DEF TypeOK
<1>5. pc'[p] = "fetch"
  BY <1>1 DEF TypeOK
<1> HIDE DEF r
<1>6. TypeOK'
  BY <1>1, <1>3 DEF TypeOK
<1>7. Timely'
  BY <1>1, <1>2, <1>3, <1>4, <1>5, FeedAssumption DEF IInv, Timely, Active
<1>8. ReachesBack'
  <2>1. DateFrom <= (IF last = None THEN today ELSE last) - Overlap
    BY <1>1, <1>2, FeedAssumption, OverlapAssumption DEF DateFrom, TypeOK
  <2> QED BY <2>1, <1>1, <1>3, <1>4, <1>5 DEF IInv, ReachesBack, Active
<1>9. Stages' /\ OriginIsFirst'
  BY <1>1, <1>3, <1>4, <1>5 DEF IInv, Stages, OriginIsFirst
<1>10. AnswersAreReports'
  BY <1>1, <1>3, <1>4, <1>5 DEF IInv, AnswersAreReports, Nothing
<1>11. Processed'
  <2> SUFFICES ASSUME NEW q \in Proc, NEW x \in Payments, Active(q)', bank[x] # None,
                      AccountOf[x] \notin req'[q].accounts \cup {req'[q].account}
               PROVE  Covered(q, x)'
    BY <1>1 DEF Processed
  <2>1. q # p
    BY <1>1, <1>3, <1>4, FeedAssumption
  <2> QED BY <2>1, <1>1, <1>4 DEF IInv, Processed, Active, Covered, UpToDate, Key
<1>12. Fetched'
  BY <1>1, <1>4, <1>5 DEF IInv, Fetched, Covered, UpToDate, Key
<1>13. NoReportMissed' /\ BookedRowsAreReal' /\ RowsAreTheirs'
  BY <1>1 DEF IInv, NoReportMissed, BookedRowsAreReal, RowsAreTheirs, Key, Lost, UpToDate, Key, InReach, BeforeOrigin
<1> QED BY <1>6, <1>7, <1>8, <1>9, <1>10, <1>11, <1>12, <1>13 DEF IInv

LEMMA FetchAccountInv ==
  ASSUME IInv, NEW p \in Proc, FetchAccount(p)
  PROVE  IInv'
<1>a. PICK a \in req[p].accounts : \E S \in Read(Matching(p, a)) :
        /\ pc[p] = "fetch"
        /\ req' = [req EXCEPT ![p].account = a, ![p].accounts = @ \ {a},
                              ![p].got = [x \in Payments |-> IF x \in S THEN bank[x] ELSE None]]
        /\ cut' = cut \cup (Matching(p, a) \ S)
        /\ pc' = [pc EXCEPT ![p] = "save"]
        /\ UNCHANGED <<today, bank, row, settled, last, origin>>
  BY DEF FetchAccount, Goto, store
<1>1. PICK S \in Read(Matching(p, a)) :
        /\ pc[p] = "fetch"
        /\ req' = [req EXCEPT ![p].account = a, ![p].accounts = @ \ {a},
                              ![p].got = [x \in Payments |-> IF x \in S THEN bank[x] ELSE None]]
        /\ cut' = cut \cup (Matching(p, a) \ S)
        /\ pc' = [pc EXCEPT ![p] = "save"]
        /\ UNCHANGED <<today, bank, row, settled, last, origin>>
  BY <1>a
<1> DEFINE got == [x \in Payments |-> IF x \in S THEN bank[x] ELSE None]
<1>2. TypeOK /\ req[p] \in Request /\ a \in Accounts
  BY DEF IInv, TypeOK, Request
<1>3. /\ req'[p].account = a /\ req'[p].accounts = req[p].accounts \ {a}
      /\ req'[p].got = got /\ req'[p].from = req[p].from /\ req'[p].at = req[p].at
      /\ \A q \in Proc \ {p} : req'[q] = req[q] /\ pc'[q] = pc[q]
      /\ pc'[p] = "save"
  BY <1>1, <1>2 DEF TypeOK, Request
<1>4. got \in [Payments -> Report \cup {None}]
  BY <1>2 DEF TypeOK
<1>5. req'[p] \in Request
  BY <1>1, <1>2, <1>4 DEF TypeOK, Request
<1> HIDE DEF got
<1>6. TypeOK'
  BY <1>1, <1>2, <1>5 DEF TypeOK, Matching
<1>7. Timely' /\ ReachesBack'
  BY <1>1, <1>3 DEF IInv, Timely, ReachesBack, Active
<1>8. Stages' /\ OriginIsFirst'
  BY <1>1, <1>3 DEF IInv, Stages, OriginIsFirst
<1>9. AnswersAreReports'
  BY <1>1, <1>3, <1>2 DEF IInv, AnswersAreReports, got, TypeOK
<1>10. \A q \in Proc, x \in Payments : Covered(q, x) => Covered(q, x)'
  BY <1>1, <1>3 DEF Covered, UpToDate, Key
<1>11. Processed'
  <2> SUFFICES ASSUME NEW q \in Proc, NEW x \in Payments, Active(q)', bank[x] # None,
                      AccountOf[x] \notin req'[q].accounts \cup {req'[q].account}
               PROVE  Covered(q, x)
    BY <1>1, <1>10 DEF Processed
  <2>1. CASE q = p
    <3>1. AccountOf[x] \notin req[p].accounts
      BY <1>3, <2>1
    <3>2. req[p].account = None /\ AccountOf[x] # None
      BY <1>1, <1>2, NoneIsNoValue, FeedAssumption DEF IInv, Stages
    <3> QED BY <3>1, <3>2, <1>1, <2>1 DEF IInv, Processed, Active
  <2>2. CASE q # p
    BY <1>3, <2>2 DEF IInv, Processed, Active
  <2> QED BY <2>1, <2>2
<1>12. Fetched'
  <2> SUFFICES ASSUME NEW q \in Proc, NEW x \in Payments, pc'[q] = "save", bank[x] # None,
                      AccountOf[x] = req'[q].account
               PROVE  req'[q].got[x] = bank[x] \/ Covered(q, x)'
    BY <1>1 DEF Fetched
  <2>1. CASE q = p
    <3>1. CASE x \in Matching(p, a)
      <4>1. x \in S \/ x \in cut'
        BY <1>1, <3>1
      <4> QED BY <4>1, <1>3, <2>1 DEF got, Covered
    <3>2. CASE x \notin Matching(p, a)
      <4>1. ~(bank[x].day >= req[p].from)
        BY <1>3, <2>1, <3>2 DEF Matching
      <4>2. bank[x].day \in Int /\ req[p].from \in Int
        BY <1>2 DEF TypeOK, Report, Request
      <4>3. bank[x].day < req[p].from
        BY <4>1, <4>2
      <4> QED BY <4>3, <1>1, <1>3, <2>1 DEF Covered
    <3> QED BY <3>1, <3>2
  <2>2. CASE q # p
    BY <1>1, <1>3, <1>10, <2>2 DEF IInv, Fetched
  <2> QED BY <2>1, <2>2
<1>13. NoReportMissed' /\ BookedRowsAreReal' /\ RowsAreTheirs'
  BY <1>1 DEF IInv, NoReportMissed, BookedRowsAreReal, RowsAreTheirs, Key, Lost, UpToDate, Key, InReach, BeforeOrigin
<1> QED BY <1>6, <1>7, <1>8, <1>9, <1>11, <1>12, <1>13 DEF IInv

LEMMA SaveAccountInv ==
  ASSUME IInv, NEW p \in Proc, SaveAccount(p)
  PROVE  IInv'
<1> DEFINE got == req[p].got
           booked == {x \in Usable(got) : got[x].booked}
<1>1. /\ pc[p] = "save"
      /\ row' = row \cup Received(got)
      /\ settled' = settled \cup KeysOf(got, booked)
      /\ cut' = {x \in cut : got[x] # bank[x]}
      /\ req' = [req EXCEPT ![p].got = Nothing, ![p].account = None]
      /\ pc' = [pc EXCEPT ![p] = IF req[p].accounts = {} THEN "synced" ELSE "fetch"]
      /\ UNCHANGED <<today, bank, last, origin>>
  BY DEF SaveAccount, Settled, Goto
<1>2. TypeOK /\ req[p] \in Request /\ got \in [Payments -> Report \cup {None}]
  BY DEF IInv, TypeOK, Request
<1>3. /\ req'[p].account = None /\ req'[p].accounts = req[p].accounts
      /\ req'[p].got = Nothing /\ req'[p].from = req[p].from /\ req'[p].at = req[p].at
      /\ \A q \in Proc \ {p} : req'[q] = req[q] /\ pc'[q] = pc[q]
      /\ pc'[p] = (IF req[p].accounts = {} THEN "synced" ELSE "fetch")
  BY <1>1, <1>2 DEF TypeOK, Request
<1>4. req'[p] \in Request
  BY <1>1, <1>2 DEF TypeOK, Request, Nothing
<1> HIDE DEF got
<1>5. /\ Received(got) \subseteq Keys \X Payments
      /\ KeysOf(got, booked) \subseteq {r[1] : r \in Received(got)}
  <2>1. \A x \in Usable(got) : x \in Payments /\ Fingerprint(x, got[x]) \in Keys
    BY <1>2, FingerprintType DEF Usable
  <2>2. \A x \in booked : <<Fingerprint(x, got[x]), x>> \in Received(got)
    BY DEF Received
  <2>3. Received(got) \subseteq Keys \X Payments
    BY <2>1 DEF Received
  <2>4. ASSUME NEW k \in KeysOf(got, booked)
        PROVE  \E r \in Received(got) : r[1] = k
    <3>1. PICK x \in booked : k = Fingerprint(x, got[x])
      BY <2>4 DEF KeysOf
    <3> DEFINE r == <<Fingerprint(x, got[x]), x>>
    <3>2. r \in Received(got) /\ r[1] = k
      BY <2>2, <3>1
    <3> QED BY <3>2
  <2> HIDE DEF booked
  <2> QED BY <2>3, <2>4
<1>6. TypeOK'
  BY <1>1, <1>2, <1>4, <1>5 DEF TypeOK
<1>7. Timely' /\ ReachesBack'
  BY <1>1, <1>3 DEF IInv, Timely, ReachesBack, Active
<1>8. Stages' /\ OriginIsFirst'
  <2>1. /\ pc'[p] # "save" => req'[p].account = None
        /\ pc'[p] = "synced" => req'[p].accounts = {}
    BY <1>3
  <2> QED BY <2>1, <1>1, <1>3 DEF IInv, Stages, OriginIsFirst
<1>9. AnswersAreReports'
  <2> SUFFICES ASSUME NEW q \in Proc, NEW x \in Payments,
                      req'[q].got[x] # None, req'[q].got[x].booked
               PROVE  req'[q].got[x] = bank[x]
    BY <1>1 DEF AnswersAreReports
  <2>1. q # p
    BY <1>3 DEF Nothing
  <2> QED BY <2>1, <1>3 DEF IInv, AnswersAreReports
<1>10. \A x \in Payments : bank[x] # None /\ got[x] = bank[x] => UpToDate(x)' \/ ~bank[x].usable
  BY <1>1, <1>2 DEF UpToDate, Key, Usable, Received, KeysOf
<1>11. \A x \in Payments : UpToDate(x) => UpToDate(x)'
  BY <1>1 DEF UpToDate, Key
<1>12. \A x \in Payments : bank[x] # None /\ x \in cut => UpToDate(x)' \/ x \in cut' \/ ~bank[x].usable
  BY <1>1, <1>10
<1>13. \A q \in Proc, x \in Payments : bank[x] # None /\ Covered(q, x) => Covered(q, x)'
  BY <1>1, <1>3, <1>11, <1>12 DEF Covered
<1>14. Processed'
  <2> SUFFICES ASSUME NEW q \in Proc, NEW x \in Payments, Active(q)', bank[x] # None,
                      AccountOf[x] \notin req'[q].accounts \cup {req'[q].account}
               PROVE  Covered(q, x)'
    BY <1>1 DEF Processed
  <2>1. CASE q = p /\ AccountOf[x] = req[p].account
    <3>1. got[x] = bank[x] \/ Covered(p, x)
      BY <1>1, <2>1 DEF IInv, Fetched, got
    <3> QED BY <3>1, <2>1, <1>10, <1>13 DEF Covered
  <2>2. CASE q = p /\ AccountOf[x] # req[p].account
    BY <1>1, <1>3, <1>13, <2>2 DEF IInv, Processed, Active
  <2>3. CASE q # p
    BY <1>3, <1>13, <2>3 DEF IInv, Processed, Active
  <2> QED BY <2>1, <2>2, <2>3
<1>15. Fetched'
  <2> SUFFICES ASSUME NEW q \in Proc, NEW x \in Payments, pc'[q] = "save", bank[x] # None,
                      AccountOf[x] = req'[q].account
               PROVE  req'[q].got[x] = bank[x] \/ Covered(q, x)'
    BY <1>1 DEF Fetched
  <2>1. q # p
    BY <1>3
  <2> QED BY <2>1, <1>3, <1>13 DEF IInv, Fetched
<1>16. NoReportMissed'
  <2> SUFFICES ASSUME NEW x \in Payments, bank[x] # None, Lost(x)', bank[x].usable
               PROVE  x \in cut'
    BY <1>1 DEF NoReportMissed
  <2>1. Lost(x)
    BY <1>1, <1>11 DEF Lost, InReach, BeforeOrigin
  <2> QED BY <2>1, <1>12 DEF IInv, NoReportMissed, Lost
<1>17. BookedRowsAreReal'
  <2> SUFFICES ASSUME NEW k \in KeysOf(got, booked)
               PROVE  \E x \in Payments :
                         bank[x] # None /\ bank[x].booked /\ Fingerprint(x, bank[x]) = k
    BY <1>1 DEF IInv, BookedRowsAreReal, Key
  <2>1. PICK x \in Payments : got[x] # None /\ got[x].booked /\ Fingerprint(x, got[x]) = k
    BY DEF KeysOf, Usable
  <2>2. got[x] = bank[x]
    BY <2>1 DEF IInv, AnswersAreReports, got
  <2> QED BY <2>1, <2>2
<1>18. RowsAreTheirs'
  <2> SUFFICES ASSUME NEW r \in Received(got)
               PROVE  \E report \in Report : r[1] = Fingerprint(r[2], report)
    BY <1>1 DEF IInv, RowsAreTheirs
  <2>1. PICK x \in Payments : got[x] # None /\ r = <<Fingerprint(x, got[x]), x>>
    BY DEF Received, Usable
  <2>2. got[x] \in Report /\ r[1] = Fingerprint(r[2], got[x])
    BY <1>2, <2>1
  <2> QED BY <2>2
<1> QED BY <1>6, <1>7, <1>8, <1>9, <1>14, <1>15, <1>16, <1>17, <1>18 DEF IInv

LEMMA MarkSyncedInv ==
  ASSUME IInv, NEW p \in Proc, MarkSynced(p)
  PROVE  IInv'
<1>1. /\ pc[p] = "synced"
      /\ last' = today
      /\ origin' = IF last = None THEN req[p].from ELSE origin
      /\ pc' = [pc EXCEPT ![p] = "idle"]
      /\ req' = [req EXCEPT ![p] = NoRequest]
      /\ UNCHANGED <<today, bank, row, settled, cut>>
  BY DEF MarkSynced, Return, Goto
<1>2. TypeOK /\ req[p] \in Request /\ today \in Nat /\ None \notin Nat
  BY FeedAssumption, NoneIsNoValue DEF IInv, TypeOK
<1>3. /\ pc'[p] = "idle" /\ req'[p] = NoRequest
      /\ \A q \in Proc \ {p} : req'[q] = req[q] /\ pc'[q] = pc[q]
  BY <1>1, <1>2 DEF TypeOK
<1>4. TypeOK'
  BY <1>1, <1>2, NoRequestType DEF TypeOK, Request
<1>5. Timely' /\ Stages'
  BY <1>1, <1>3 DEF IInv, Timely, Active, Stages, NoRequest
<1>6. ReachesBack'
  <2> SUFFICES ASSUME NEW q \in Proc, Active(q)'
               PROVE  req'[q].from <= today - Overlap
    BY <1>1, <1>2 DEF ReachesBack
  <2>1. q # p /\ Active(q)
    BY <1>3 DEF Active
  <2>2. req[q].from <= (IF last = None THEN today ELSE last) - Overlap /\ req[q].from \in Int
    BY <1>2, <2>1 DEF IInv, ReachesBack, TypeOK, Request
  <2>3. last # None => last \in Nat /\ last <= today
    BY <1>2 DEF TypeOK
  <2> QED BY <1>2, <1>3, <2>1, <2>2, <2>3, FeedAssumption
<1>7. OriginIsFirst'
  <2>1. req[p].from # None
    BY <1>2, NoneIsNoValue DEF Request
  <2> QED BY <1>1, <1>2, <2>1 DEF IInv, OriginIsFirst
<1>8. AnswersAreReports'
  BY <1>1, <1>3 DEF IInv, AnswersAreReports, NoRequest, Nothing
<1>9. Processed' /\ Fetched'
  BY <1>1, <1>3 DEF IInv, Processed, Fetched, Active, Covered, UpToDate, Key
<1>10. NoReportMissed'
  <2> SUFFICES ASSUME NEW x \in Payments, bank[x] # None, x \notin cut, ~UpToDate(x),
                      bank[x].usable
               PROVE  InReach(x)' \/ BeforeOrigin(x)'
    BY <1>1 DEF NoReportMissed, Lost, UpToDate, Key
  <2>1. AccountOf[x] \notin req[p].accounts \cup {req[p].account}
    BY <1>1, <1>2, NoneIsNoValue, FeedAssumption DEF IInv, Stages
  <2>2. bank[x].day < req[p].from \/ bank[x].day >= req[p].at - Late
    BY <1>1, <2>1 DEF IInv, Processed, Active, Covered
  <2>3. bank[x].day \in Int /\ req[p].from \in Int /\ req[p].at \in Nat
    BY <1>2 DEF TypeOK, Report, Request
  <2>4. CASE bank[x].day >= req[p].at - Late
    <3>1. today <= req[p].at + Slow
      BY <1>1 DEF IInv, Timely, Active
    <3>2. bank[x].day >= today - Overlap
      BY <2>3, <2>4, <3>1, <1>2, FeedAssumption, OverlapAssumption
    <3> QED BY <1>1, <3>2 DEF InReach
  <2>5. CASE bank[x].day < req[p].from /\ last = None
    BY <1>1, <2>3, <2>5, NoneIsNoValue DEF BeforeOrigin
  <2>6. CASE bank[x].day < req[p].from /\ last # None
    <3>1. req[p].from <= last - Overlap /\ last \in Nat
      BY <1>1, <1>2, <2>6 DEF IInv, ReachesBack, Active, TypeOK
    <3>2. ~InReach(x)
      BY <2>3, <2>6, <3>1, FeedAssumption DEF InReach
    <3>3. BeforeOrigin(x)
      BY <3>2 DEF IInv, NoReportMissed, Lost
    <3> QED BY <1>1, <2>6, <3>3 DEF BeforeOrigin
  <2> QED BY <2>2, <2>4, <2>5, <2>6
<1>11. BookedRowsAreReal' /\ RowsAreTheirs'
  BY <1>1 DEF IInv, BookedRowsAreReal, Key, RowsAreTheirs
<1> QED BY <1>4, <1>5, <1>6, <1>7, <1>8, <1>9, <1>10, <1>11 DEF IInv

LEMMA FailInv ==
  ASSUME IInv, NEW p \in Proc, Fail(p)
  PROVE  IInv'
<1>1. /\ pc' = [pc EXCEPT ![p] = "idle"]
      /\ req' = [req EXCEPT ![p] = NoRequest]
      /\ UNCHANGED <<today, bank, row, settled, last, origin, cut>>
  BY DEF Fail, Return, Goto, store
<1>2. /\ pc'[p] = "idle" /\ req'[p] = NoRequest
      /\ \A q \in Proc \ {p} : req'[q] = req[q] /\ pc'[q] = pc[q]
  BY <1>1 DEF IInv, TypeOK
<1>3. TypeOK'
  BY <1>1, NoRequestType DEF IInv, TypeOK
<1>4. Timely' /\ ReachesBack' /\ Stages' /\ OriginIsFirst'
  BY <1>1, <1>2 DEF IInv, Timely, ReachesBack, Active, Stages, OriginIsFirst, NoRequest
<1>5. AnswersAreReports' /\ Processed' /\ Fetched'
  BY <1>1, <1>2 DEF IInv, AnswersAreReports, Processed, Fetched, Active, Covered, UpToDate, Key,
                    NoRequest, Nothing
<1>6. NoReportMissed' /\ BookedRowsAreReal' /\ RowsAreTheirs'
  BY <1>1 DEF IInv, NoReportMissed, BookedRowsAreReal, RowsAreTheirs, Key, Lost, UpToDate, Key, InReach, BeforeOrigin
<1> QED BY <1>3, <1>4, <1>5, <1>6 DEF IInv

\* What the bank says anew is dated recently enough for the next sync and for
\* every sync under way.
LEMMA NewReportsAreInReach ==
  ASSUME IInv, NEW d \in Dates
  PROVE  /\ d \in Int
         /\ last = None \/ d >= last - Overlap
         /\ \A p \in Proc : Active(p) => d >= req[p].at - Late
<1>1. today \in Nat /\ d \in Int /\ d >= today - Late
  BY FeedAssumption DEF IInv, TypeOK, Dates
<1>2. last # None => last \in Nat /\ last <= today
  BY <1>1 DEF IInv, TypeOK
<1>3. last = None \/ d >= last - Overlap
  BY <1>1, <1>2, FeedAssumption, OverlapAssumption
<1>4. ASSUME NEW p \in Proc, Active(p) PROVE d >= req[p].at - Late
  <2>1. req[p].at \in Nat /\ req[p].at <= today
    BY <1>4 DEF IInv, TypeOK, Request, Timely
  <2> QED BY <1>1, <2>1, FeedAssumption
<1> QED BY <1>1, <1>3, <1>4

\* The step of the bank: one payment gets a new report, which no sync holds.
LEMMA NewReportInv ==
  ASSUME IInv, NEW x \in Payments, NEW r \in Report, r.day \in Dates,
         bank[x] = None \/ ~bank[x].booked,
         bank' = [bank EXCEPT ![x] = r],
         cut' = cut \/ cut' = cut \ {x},
         UNCHANGED <<today, row, settled, last, pc, req, origin>>
  PROVE  IInv'
<1>1. TypeOK /\ bank'[x] = r /\ \A y \in Payments \ {x} : bank'[y] = bank[y]
  BY DEF IInv, TypeOK
<1>2. TypeOK'
  BY <1>1 DEF TypeOK
<1>3. Timely' /\ ReachesBack' /\ Stages' /\ OriginIsFirst'
  BY DEF IInv, Timely, ReachesBack, Stages, OriginIsFirst, Active
<1>4. \A p \in Proc : Active(p) => Covered(p, x)'
  BY <1>1, NewReportsAreInReach DEF Covered
<1>5. \A p \in Proc, y \in Payments \ {x} : Covered(p, y) => Covered(p, y)'
  BY <1>1 DEF Covered, UpToDate, Key
<1>6. AnswersAreReports'
  <2> SUFFICES ASSUME NEW q \in Proc, NEW y \in Payments, req[q].got[y] # None, req[q].got[y].booked
               PROVE  req[q].got[y] = bank'[y]
    BY DEF AnswersAreReports
  <2>1. req[q].got[y] = bank[y]
    BY DEF IInv, AnswersAreReports
  <2> QED BY <2>1, <1>1
<1>7. Processed'
  <2> SUFFICES ASSUME NEW q \in Proc, NEW y \in Payments, Active(q), bank'[y] # None,
                      AccountOf[y] \notin req[q].accounts \cup {req[q].account}
               PROVE  Covered(q, y)'
    BY DEF Processed, Active
  <2>1. CASE y = x
    BY <1>4, <2>1
  <2>2. CASE y # x
    BY <1>1, <1>5, <2>2 DEF IInv, Processed
  <2> QED BY <2>1, <2>2
<1>8. Fetched'
  <2> SUFFICES ASSUME NEW q \in Proc, NEW y \in Payments, pc[q] = "save", bank'[y] # None,
                      AccountOf[y] = req[q].account
               PROVE  req[q].got[y] = bank'[y] \/ Covered(q, y)'
    BY DEF Fetched
  <2>1. CASE y = x
    BY <1>4, <2>1 DEF Active
  <2>2. CASE y # x
    BY <1>1, <1>5, <2>2 DEF IInv, Fetched
  <2> QED BY <2>1, <2>2
<1>9. NoReportMissed'
  <2> SUFFICES ASSUME NEW y \in Payments, bank'[y] # None, Lost(y)', bank'[y].usable
               PROVE  y \in cut'
    BY DEF NoReportMissed
  <2>1. y # x
    BY <1>1, NewReportsAreInReach DEF Lost, InReach
  <2>2. Lost(y)
    BY <1>1, <2>1 DEF Lost, UpToDate, Key, InReach, BeforeOrigin
  <2> QED BY <1>1, <2>1, <2>2 DEF IInv, NoReportMissed
<1>10. BookedRowsAreReal'
  <2> SUFFICES ASSUME NEW k \in settled
               PROVE  \E y \in Payments :
                         bank'[y] # None /\ bank'[y].booked /\ Fingerprint(y, bank'[y]) = k
    BY DEF BookedRowsAreReal, Key
  <2>1. PICK y \in Payments : bank[y] # None /\ bank[y].booked /\ Fingerprint(y, bank[y]) = k
    BY DEF IInv, BookedRowsAreReal, Key
  <2>2. y # x
    BY <2>1
  <2> QED BY <1>1, <2>1, <2>2
<1>11. RowsAreTheirs'
  BY DEF IInv, RowsAreTheirs
<1> QED BY <1>2, <1>3, <1>6, <1>7, <1>8, <1>9, <1>10, <1>11 DEF IInv

LEMMA BankPostsInv ==
  ASSUME IInv, BankPosts
  PROVE  IInv'
<1>1. PICK x \in Payments : \E d \in Dates, b, u \in BOOLEAN :
        /\ bank[x] = None
        /\ bank' = [bank EXCEPT ![x] = [day |-> d, booked |-> b, usable |-> u]]
        /\ UNCHANGED <<today, row, settled, last, pc, req, origin, cut>>
  BY DEF BankPosts, store
<1>2. PICK r \in Report : r.day \in Dates /\ bank' = [bank EXCEPT ![x] = r]
  BY <1>1, NewReportsAreInReach DEF Report
<1> QED BY <1>1, <1>2, NewReportInv

LEMMA BankBooksInv ==
  ASSUME IInv, BankBooks
  PROVE  IInv'
<1>1. PICK x \in Payments : \E d \in Dates, u \in BOOLEAN :
        /\ bank[x] # None /\ ~bank[x].booked
        /\ bank' = [bank EXCEPT ![x] = [day |-> d, booked |-> TRUE, usable |-> u]]
        /\ cut' = cut \ {x}
        /\ UNCHANGED <<today, row, settled, last, pc, req, origin>>
  BY DEF BankBooks, store
<1>2. bank[x] \in Report
  BY <1>1 DEF IInv, TypeOK
<1>3. PICK r \in Report : r.day \in Dates /\ bank' = [bank EXCEPT ![x] = r]
  BY <1>1, <1>2, NewReportsAreInReach DEF Report
<1> QED BY <1>1, <1>3, NewReportInv

LEMMA NewDayInv ==
  ASSUME IInv, NewDay
  PROVE  IInv'
<1>1. /\ today < MaxDay /\ today' = today + 1
      /\ \A p \in Proc : Active(p) => today < req[p].at + Slow
      /\ UNCHANGED <<bank, row, settled, last, pc, req, origin, cut>>
  BY DEF NewDay, Active, store
<1>2. today \in Nat /\ MaxDay \in Nat /\ today' \in 0..MaxDay
  BY <1>1, FeedAssumption DEF IInv, TypeOK
<1>3. TypeOK'
  BY <1>1, <1>2 DEF IInv, TypeOK
<1>4. Timely'
  <2> SUFFICES ASSUME NEW p \in Proc, Active(p)
               PROVE  req[p].at <= today' /\ today' <= req[p].at + Slow
    BY <1>1 DEF Timely, Active
  <2>1. req[p].at \in Nat /\ req[p].at <= today /\ Slow \in Nat
    BY FeedAssumption DEF IInv, Timely, TypeOK, Request
  <2> QED BY <2>1, <1>1, <1>2
<1>5. ReachesBack'
  <2> SUFFICES ASSUME NEW p \in Proc, Active(p)
               PROVE  req[p].from <= (IF last = None THEN today' ELSE last) - Overlap
    BY <1>1 DEF ReachesBack, Active
  <2>1. req[p].from \in Int /\ req[p].from <= (IF last = None THEN today ELSE last) - Overlap
    BY DEF IInv, ReachesBack, TypeOK, Request
  <2> QED BY <2>1, <1>1, <1>2, FeedAssumption
<1>6. Stages' /\ OriginIsFirst' /\ AnswersAreReports' /\ Processed' /\ Fetched'
  BY <1>1 DEF IInv, Stages, OriginIsFirst, AnswersAreReports, Processed, Fetched, Active,
              Covered, UpToDate, Key
<1>7. NoReportMissed' /\ BookedRowsAreReal' /\ RowsAreTheirs'
  BY <1>1 DEF IInv, NoReportMissed, BookedRowsAreReal, RowsAreTheirs, Key, Lost, UpToDate, Key, InReach, BeforeOrigin
<1> QED BY <1>3, <1>4, <1>5, <1>6, <1>7 DEF IInv

LEMMA NextInv == IInv /\ [Next]_vars => IInv'
<1> SUFFICES ASSUME IInv, [Next]_vars PROVE IInv'
  OBVIOUS
<1>1. ASSUME NEW p \in Proc, SyncConnection(p) PROVE IInv'
  BY <1>1, SyncConnectionInv
<1>2. ASSUME NEW p \in Proc, FetchAccount(p) PROVE IInv'
  BY <1>2, FetchAccountInv
<1>3. ASSUME NEW p \in Proc, SaveAccount(p) PROVE IInv'
  BY <1>3, SaveAccountInv
<1>4. ASSUME NEW p \in Proc, MarkSynced(p) PROVE IInv'
  BY <1>4, MarkSyncedInv
<1>5. ASSUME NEW p \in Proc, Fail(p) PROVE IInv'
  BY <1>5, FailInv
<1>6. CASE BankPosts
  BY <1>6, BankPostsInv
<1>7. CASE BankBooks
  BY <1>7, BankBooksInv
<1>8. CASE NewDay
  BY <1>8, NewDayInv
<1>9. CASE UNCHANGED vars
  BY <1>9 DEF vars, store, IInv, TypeOK, Timely, ReachesBack, Stages, OriginIsFirst,
              AnswersAreReports, Processed, Fetched, NoReportMissed, BookedRowsAreReal,
              RowsAreTheirs, Active, Covered, Lost, UpToDate, Key, InReach, BeforeOrigin
<1> QED BY <1>1, <1>2, <1>3, <1>4, <1>5, <1>6, <1>7, <1>8, <1>9 DEF Next

LEMMA Invariance == Spec => []IInv
<1> QED BY InitInv, NextInv, PTL DEF Spec

-----------------------------------------------------------------------------
\* The variables keep their types; a booked row is a row, and the watermark
\* is never in the future.
THEOREM FeedTypeCorrect == Spec => []TypeOK
<1>1. IInv => TypeOK
  BY DEF IInv
<1> QED BY <1>1, Invariance, PTL

\* Nothing the bank reports is lost between two syncs, whatever the number of
\* threads, accounts and payments, if the overlap absorbs how late the bank is
\* and how long a sync takes - but for what is older than the first window, what
\* the pages do not reach, unusable reports, and one of two payments in one row.
THEOREM FeedLosesNothing == Spec => []NothingIsLost
<1>1. IInv => NothingIsLost
  BY DEF IInv, NoReportMissed, Lost, NothingIsLost, OwnRow, SharedRow
<1> QED BY <1>1, Invariance, PTL

\* Payments go into one row only if they are on one account, have no reference
\* and look the same: no other payment can take the row of a third.
OnlyAlikeMerge ==
    \A x \in Payments : bank[x] # None /\ Merged(x) =>
        /\ x \notin Referenced
        /\ \E y \in Payments \ Referenced : y # x /\ AccountOf[y] = AccountOf[x] /\ Look[y] = Look[x]

\* The last exception of NothingIsLost is no wider than the fingerprint: a
\* payment with a reference, or one that looks like no other, has its own row.
THEOREM FeedMergesOnlyAlike == Spec => []OnlyAlikeMerge
<1>1. ASSUME IInv PROVE OnlyAlikeMerge
  <2> SUFFICES ASSUME NEW x \in Payments, bank[x] # None, Merged(x)
               PROVE  /\ x \notin Referenced
                      /\ \E y \in Payments \ Referenced :
                            y # x /\ AccountOf[y] = AccountOf[x] /\ Look[y] = Look[x]
    BY DEF OnlyAlikeMerge
  <2>1. PICK y \in Payments : y # x /\ <<Key(x), y>> \in row
    BY DEF Merged
  <2>2. PICK report \in Report : Key(x) = Fingerprint(y, report)
    BY <1>1, <2>1 DEF IInv, RowsAreTheirs
  <2>3. bank[x] \in Report /\ bank[x].day \in Int /\ report.day \in Int
    BY <1>1 DEF IInv, TypeOK, Report
  <2>4. /\ AccountOf[x] = AccountOf[y]
        /\ (IF x \in Referenced THEN x ELSE <<Look[x], bank[x].day>>)
             = (IF y \in Referenced THEN y ELSE <<Look[y], report.day>>)
    BY <2>2 DEF Key, Fingerprint
  <2>5. /\ <<Look[x], bank[x].day>> \in Looks \X Int
        /\ <<Look[y], report.day>> \in Looks \X Int
    BY <2>3 DEF Looks
  <2>6. x \notin Looks \X Int /\ y \notin Looks \X Int
    BY NoneAssumption
  <2>7. x \notin Referenced /\ y \notin Referenced
    BY <2>1, <2>4, <2>5, <2>6
  <2>8. <<Look[x], bank[x].day>> = <<Look[y], report.day>>
    BY <2>4, <2>7
  <2> QED BY <2>1, <2>4, <2>7, <2>8
<1> QED BY <1>1, Invariance, PTL

\* A booked row stands for a booked payment.
THEOREM FeedInventsNothing == Spec => []BookedRowsAreReal
<1>1. IInv => BookedRowsAreReal
  BY DEF IInv
<1> QED BY <1>1, Invariance, PTL

-----------------------------------------------------------------------------
\* The reports of an account only grow.
LEMMA ReportsGrow ==
  ASSUME IInv, [Next]_vars, NEW a \in Accounts
  PROVE  ReportsOf(a) \subseteq ReportsOf(a)'
<1>1. CASE BankPosts
  BY <1>1 DEF BankPosts, ReportsOf, IInv, TypeOK
<1>2. CASE BankBooks
  <2>1. PICK x \in Payments : \E d \in Dates, u \in BOOLEAN :
          /\ bank[x] # None
          /\ bank' = [bank EXCEPT ![x] = [day |-> d, booked |-> TRUE, usable |-> u]]
    BY <1>2 DEF BankBooks
  <2>2. bank[x] \in Report
    BY <2>1 DEF IInv, TypeOK
  <2>3. PICK r \in Report : bank' = [bank EXCEPT ![x] = r]
    BY <2>1, <2>2, NewReportsAreInReach DEF Report
  <2>4. r # None
    BY NoneAssumption
  <2> QED BY <2>3, <2>4 DEF ReportsOf, IInv, TypeOK
<1>3. CASE UNCHANGED bank
  BY <1>3 DEF ReportsOf
<1> QED
  BY <1>1, <1>2, <1>3 DEF Next, vars, SyncConnection, FetchAccount, SaveAccount, MarkSynced,
                          Fail, NewDay

LEMMA MoreReports ==
  ASSUME NEW S, NEW T \in SUBSET Payments, S \subseteq T,
         Cardinality(S) > MaxPages * PageSize
  PROVE  Cardinality(T) > MaxPages * PageSize
<1>1. IsFiniteSet(T)
  BY FeedAssumption, FS_Subset
<1>2. Cardinality(S) \in Nat /\ Cardinality(T) \in Nat /\ Cardinality(S) <= Cardinality(T)
  BY <1>1, FS_Subset, FS_CardinalityType
<1>3. MaxPages * PageSize \in Nat
  BY FeedAssumption
<1> QED BY <1>2, <1>3

LEMMA CutInv ==
  ASSUME IInv, OnlyFullPagesCut, [Next]_vars
  PROVE  OnlyFullPagesCut'
<1>1. CASE cut' \subseteq cut
  <2> SUFFICES ASSUME cut # {}
               PROVE  \E a \in Accounts : Cardinality(ReportsOf(a)') > MaxPages * PageSize
    BY <1>1 DEF OnlyFullPagesCut
  <2>1. PICK a \in Accounts : Cardinality(ReportsOf(a)) > MaxPages * PageSize
    BY DEF OnlyFullPagesCut
  <2>2. ReportsOf(a)' \in SUBSET Payments
    BY DEF ReportsOf
  <2> QED BY <2>1, <2>2, ReportsGrow, MoreReports
<1>2. CASE \E p \in Proc : FetchAccount(p) /\ ~(cut' \subseteq cut)
  <2> PICK p \in Proc : FetchAccount(p) /\ ~(cut' \subseteq cut)
    BY <1>2
  <2>1. PICK a \in req[p].accounts :
            /\ UNCHANGED bank
            /\ \E S \in Read(Matching(p, a)) : Matching(p, a) \ S # {}
    BY DEF FetchAccount
  <2>2. a \in Accounts
    BY <2>1 DEF IInv, TypeOK, Request
  <2>3. ~(Cardinality(Matching(p, a)) <= MaxPages * PageSize)
    BY <2>1 DEF Read
  <2>4. Matching(p, a) \subseteq ReportsOf(a) /\ ReportsOf(a) \in SUBSET Payments
    BY DEF Matching, ReportsOf
  <2>5. Cardinality(Matching(p, a)) \in Nat /\ MaxPages * PageSize \in Nat
    BY <2>4, FeedAssumption, FS_Subset, FS_CardinalityType
  <2>6. Cardinality(ReportsOf(a)) > MaxPages * PageSize
    BY <2>3, <2>4, <2>5, MoreReports
  <2>7. ReportsOf(a)' = ReportsOf(a)
    BY <2>1 DEF ReportsOf
  <2> QED BY <2>2, <2>6, <2>7 DEF OnlyFullPagesCut
<1>3. CASE UNCHANGED vars
  BY <1>1, <1>3 DEF vars
<1> QED
  BY <1>1, <1>2, <1>3 DEF Next, SyncConnection, SaveAccount, MarkSynced, Fail, BankPosts,
                          BankBooks, NewDay

\* The end of the pages is the only way a report is left out.
THEOREM FeedCutsOnlyFullPages == Spec => []OnlyFullPagesCut
<1>1. Init => OnlyFullPagesCut
  BY DEF Init, OnlyFullPagesCut
<1>2. IInv /\ OnlyFullPagesCut /\ [Next]_vars => OnlyFullPagesCut'
  BY CutInv
<1> QED BY <1>1, <1>2, Invariance, PTL DEF Spec
=============================================================================
