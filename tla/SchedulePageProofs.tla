------------------------- MODULE SchedulePageProofs -------------------------
(***************************************************************************)
(* What holds of SchedulePage for any number of pages, sessions and        *)
(* schedules and whatever solver and other requests do meanwhile.          *)
(*                                                                         *)
(* PageInv is inductive: whatever a page holds are sessions and seats, a   *)
(* draft differs from the copy taken when its edit began only where a      *)
(* session was dropped, and while a save is under way its edit goes on, so *)
(* that what it posts was dropped in the edit it belongs to.               *)
(***************************************************************************)
EXTENDS SchedulePage, TLAPS

Statuses == {"none", "unknown", "pending", "solved", "failed"}

\* What a page may hold of a schedule: nothing, all of it or the sessions posted.
Views == UNION {[S -> Seats] : S \in SUBSET Sessions}

Schedules == DOMAIN stored

Timetables == [Sessions -> Seats]
Runs == [status : Statuses, schedule : Nat]

RunOK(x) ==
    /\ x.schedule \in Schedules \cup {0}
    /\ x.status = "solved" => x.schedule \in Schedules

RunTypes ==
    /\ stored \in Seq(Timetables)
    /\ solverRuns \in Seq(Runs)
    /\ \A r \in DOMAIN solverRuns : RunOK(solverRuns[r])

PageOK(g) ==
    /\ g \in [open : BOOLEAN, status : Statuses, schedule : Nat, sessions : Views,
              polling : BOOLEAN, confirm : BOOLEAN, edit : BOOLEAN, drafts : Views,
              originals : Views, unsaved : BOOLEAN,
              asked : {"nothing", "save", "discard"}]
    /\ g.schedule \in Schedules \cup {0}
    /\ g.asked = "save" => g.edit /\ g.unsaved

CallOK(k) ==
    /\ k \in [pc : {"idle", "status", "statusBack", "details", "detailsBack", "trigger",
                    "accepted", "post", "failed"},
              status : Statuses, schedule : Nat, body : Views]
    /\ k.schedule \in Schedules \cup {0}
    /\ k.status = "solved" => k.schedule \in Schedules
    /\ k.pc \in {"details", "post"} => k.schedule \in Schedules

\* What is posted has been dropped in this edit, which goes on meanwhile.
SaveOK(p) ==
    /\ calls[p]["save"].pc # "idle" => page[p].edit /\ page[p].unsaved
    /\ calls[p]["save"].pc = "post" =>
          \A s \in DOMAIN calls[p]["save"].body :
             <<OfferingOf[s], calls[p]["save"].body[s]>> \in wishes[p]

\* A draft differs from its original only where a session was dropped.
DraftsOK(p) ==
    page[p].edit =>
        /\ DOMAIN page[p].drafts = DOMAIN page[p].originals
        /\ \A s \in DOMAIN page[p].drafts :
              \/ page[p].drafts[s].place = page[p].originals[s].place
              \/ <<OfferingOf[s], page[p].drafts[s]>> \in wishes[p]

PageInv ==
    /\ RunTypes
    /\ DOMAIN page = Pages /\ page = [p \in Pages |-> page[p]]
    /\ \A p \in Pages : PageOK(page[p])
    /\ calls = [p \in Pages |-> calls[p]]
    /\ \A p \in Pages : calls[p] = [c \in Names |-> calls[p][c]]
    /\ \A p \in Pages, c \in Names : CallOK(calls[p][c])
    /\ wishes = [p \in Pages |-> wishes[p]]
    /\ \A p \in Pages : SaveOK(p) /\ DraftsOK(p)

------------------------------------------------------------------------------

\* No page is open, and a run that was solved names the one schedule.
LEMMA PageInvInit ==
    ASSUME PagesInit
    PROVE  PageInv
<1>1. NoSessions \in Views
  <2>1. NoSessions \in [{} -> Seats]
    BY DEF NoSessions
  <2>2. QED
    BY <2>1 DEF Views
<1>2. RunTypes
  <2>1. CASE solverRuns = << >> /\ stored = << >>
    BY <2>1 DEF RunTypes, Schedules
  <2>2. CASE /\ solverRuns = <<[status |-> "solved", schedule |-> 1]>>
             /\ \E x \in Solutions : stored = <<x>>
    <3>1. stored \in Seq(Timetables) /\ DOMAIN stored = {1}
      BY <2>2, PageConstants DEF Timetables
    <3>2. [status |-> "solved", schedule |-> 1] \in Runs
      BY DEF Runs, Statuses
    <3>3. solverRuns \in Seq(Runs) /\ DOMAIN solverRuns = {1}
          /\ solverRuns[1].schedule = 1
      BY <2>2, <3>2
    <3>4. QED
      BY <3>1, <3>3 DEF RunTypes, RunOK, Schedules
  <2>3. QED
    BY <2>1, <2>2 DEF PagesInit
<1>3. PageOK(NewPage)
  BY <1>1 DEF PageOK, NewPage, Statuses
<1>4. CallOK(NoCall)
  BY <1>1 DEF CallOK, NoCall, Statuses
<1>5. \A p \in Pages : page[p] = NewPage /\ \A c \in Names : calls[p][c] = NoCall
  BY DEF PagesInit
<1>6. \A p \in Pages : SaveOK(p) /\ DraftsOK(p)
  BY <1>5 DEF SaveOK, DraftsOK, NewPage, NoCall, Names
<1>7. QED
  BY <1>2, <1>3, <1>4, <1>5, <1>6 DEF PagesInit, PageInv

\* A step of one page that changes one of its calls is judged by what it does there.
LEMMA OnePage ==
    ASSUME PageInv, NEW p \in Pages, NEW c \in Names,
           RunTypes', Schedules \subseteq Schedules',
           page' = [page EXCEPT ![p] = page'[p]],
           calls' = [calls EXCEPT ![p][c] = calls'[p][c]],
           wishes' = [wishes EXCEPT ![p] = wishes'[p]],
           PageOK(page[p])', CallOK(calls[p][c])', SaveOK(p)', DraftsOK(p)'
    PROVE  PageInv'
<1>2. /\ DOMAIN page' = Pages /\ page' = [q \in Pages |-> page'[q]]
      /\ calls' = [q \in Pages |-> calls'[q]]
      /\ wishes' = [q \in Pages |-> wishes'[q]]
  BY DEF PageInv
<1>3. \A q \in Pages : q # p =>
         page'[q] = page[q] /\ calls'[q] = calls[q] /\ wishes'[q] = wishes[q]
  BY DEF PageInv
<1>4. calls'[p] = [calls[p] EXCEPT ![c] = calls'[p][c]]
  BY DEF PageInv
<1>5. \A q \in Pages : calls'[q] = [d \in Names |-> calls'[q][d]]
  <2>1. calls'[p] = [d \in Names |-> calls'[p][d]]
    BY <1>4 DEF PageInv
  <2>2. QED
    BY <1>3, <2>1 DEF PageInv
<1>6. \A q \in Pages : PageOK(page[q])'
  BY <1>3 DEF PageInv, PageOK
<1>7. \A q \in Pages, d \in Names : CallOK(calls[q][d])'
  <2> TAKE q \in Pages, d \in Names
  <2>1. CASE q = p /\ d = c
    BY <2>1
  <2>2. CASE q # p \/ d # c
    <3>1. calls'[q][d] = calls[q][d]
      BY <1>3, <1>4, <2>2 DEF PageInv
    <3>2. CallOK(calls[q][d])
      BY DEF PageInv
    <3>3. QED
      BY <3>1, <3>2 DEF CallOK
  <2>3. QED
    BY <2>1, <2>2
<1>8. \A q \in Pages : SaveOK(q)' /\ DraftsOK(q)'
  <2> TAKE q \in Pages
  <2>1. CASE q # p
    <3>1. SaveOK(q) /\ DraftsOK(q)
      BY DEF PageInv
    <3>2. QED
      BY <1>3, <2>1, <3>1 DEF SaveOK, DraftsOK
  <2>2. QED
    BY <2>1
<1>9. QED
  BY <1>2, <1>5, <1>6, <1>7, <1>8 DEF PageInv

\* What the solver and other requests do leaves the pages alone; schedules only come.
LEMMA OthersKeep ==
    ASSUME PageInv, UNCHANGED <<page, calls, wishes>>,
           RunTypes', Schedules \subseteq Schedules'
    PROVE  PageInv'
<1>1. \A p \in Pages : PageOK(page[p])'
  BY DEF PageInv, PageOK
<1>2. \A p \in Pages, c \in Names : CallOK(calls[p][c])'
  BY DEF PageInv, CallOK
<1>3. \A p \in Pages : SaveOK(p)' /\ DraftsOK(p)'
  BY DEF PageInv, SaveOK, DraftsOK
<1>4. QED
  BY <1>1, <1>2, <1>3 DEF PageInv

\* A step that changes one call of one page and nothing else of the pages; schedules
\* only come.
LEMMA OneCall ==
    ASSUME PageInv, NEW p \in Pages, NEW c \in Names, NEW k,
           RunTypes', Schedules \subseteq Schedules', UNCHANGED <<page, wishes>>,
           calls' = [calls EXCEPT ![p][c] = k], CallOK(k),
           c = "save" /\ k.pc # "idle" => calls[p][c].pc # "idle",
           c = "save" => k.pc # "post"
    PROVE  PageInv'
<1>1. calls'[p][c] = k /\ calls' = [calls EXCEPT ![p][c] = calls'[p][c]]
  BY DEF PageInv
<1>2. page' = [page EXCEPT ![p] = page'[p]] /\ wishes' = [wishes EXCEPT ![p] = wishes'[p]]
  BY DEF PageInv
<1>3. PageOK(page[p])'
  BY DEF PageInv, PageOK
<1>4. CallOK(calls[p][c])'
  BY <1>1 DEF CallOK
<1>5. SaveOK(p)'
  <2>1. SaveOK(p)
    BY DEF PageInv
  <2>2. CASE c # "save"
    <3>1. calls'[p]["save"] = calls[p]["save"]
      BY <2>2 DEF PageInv, Names
    <3>2. QED
      BY <2>1, <3>1 DEF SaveOK
  <2>3. CASE c = "save"
    BY <1>1, <2>1, <2>3 DEF SaveOK
  <2>4. QED
    BY <2>2, <2>3
<1>6. DraftsOK(p)'
  <2>1. DraftsOK(p)
    BY DEF PageInv
  <2>2. QED
    BY <2>1 DEF DraftsOK
<1>7. QED
  BY <1>1, <1>2, <1>3, <1>4, <1>5, <1>6, OnePage

------------------------------------------------------------------------------

\* A run that is created is pending.
LEMMA PendingRunAdded ==
    ASSUME PageInv, stored' = stored, solverRuns' = Append(solverRuns, PendingRun)
    PROVE  RunTypes' /\ Schedules' = Schedules
<1>1. PendingRun \in Runs /\ RunOK(PendingRun)
  BY DEF PendingRun, Runs, Statuses, RunOK
<1>2. solverRuns' \in Seq(Runs)
      /\ \A r \in DOMAIN solverRuns' : RunOK(solverRuns'[r])
  BY <1>1 DEF PageInv, RunTypes
<1>3. QED
  BY <1>2 DEF PageInv, RunTypes, RunOK, Schedules

\* Runs are completed with schedules that there are, and solutions stored in them.
LEMMA RunsKeep ==
    ASSUME PageInv, SolverStores \/ RunCompletes \/ OthersRequest
    PROVE  PageInv'
<1>1. CASE SolverStores
  <2>1. PICK x \in Solutions :
           \/ \E n \in DOMAIN stored : stored' = [stored EXCEPT ![n] = x]
           \/ stored' = Append(stored, x)
    BY <1>1 DEF SolverStores
  <2>2. x \in Timetables
    BY PageConstants DEF Timetables
  <2>3. stored' \in Seq(Timetables) /\ Schedules \subseteq Schedules'
    <3>1. stored \in Seq(Timetables)
      BY DEF PageInv, RunTypes
    <3>2. QED
      BY <2>1, <2>2, <3>1 DEF Schedules
  <2>4. RunTypes'
    <3>1. solverRuns' = solverRuns /\ \A r \in DOMAIN solverRuns : RunOK(solverRuns[r])
      BY <1>1 DEF SolverStores, PageInv, RunTypes
    <3>2. \A r \in DOMAIN solverRuns : RunOK(solverRuns[r])'
      BY <2>3, <3>1 DEF RunOK
    <3>3. QED
      BY <2>3, <3>1, <3>2 DEF PageInv, RunTypes
  <2>5. QED
    BY <1>1, <2>3, <2>4, OthersKeep DEF SolverStores
<1>2. CASE RunCompletes
  <2>1. PICK r \in PendingRuns :
           \/ solverRuns' = [solverRuns EXCEPT ![r].status = "failed"]
           \/ \E n \in DOMAIN stored :
                 solverRuns' = [solverRuns EXCEPT ![r] = [status |-> "solved", schedule |-> n]]
    BY <1>2 DEF RunCompletes
  <2>2. r \in DOMAIN solverRuns /\ solverRuns[r] \in Runs
        /\ RunOK(solverRuns[r])
    <3>1. r \in DOMAIN solverRuns
      BY DEF PendingRuns
    <3>2. solverRuns \in Seq(Runs)
          /\ \A q \in DOMAIN solverRuns : RunOK(solverRuns[q])
      BY DEF PageInv, RunTypes
    <3>3. QED
      BY <3>1, <3>2
  <2>3. PICK x \in Runs :
           RunOK(x) /\ solverRuns' = [solverRuns EXCEPT ![r] = x]
    <3>1. CASE solverRuns' = [solverRuns EXCEPT ![r].status = "failed"]
      <4>1. solverRuns' = [solverRuns EXCEPT ![r] = [solverRuns[r] EXCEPT !.status = "failed"]]
        BY <2>2, <3>1
      <4>2. [solverRuns[r] EXCEPT !.status = "failed"] \in Runs
            /\ RunOK([solverRuns[r] EXCEPT !.status = "failed"])
        BY <2>2 DEF RunOK, Runs, Statuses
      <4>3. QED
        BY <4>1, <4>2
    <3>2. ASSUME NEW n \in DOMAIN stored,
                 solverRuns' = [solverRuns EXCEPT ![r] = [status |-> "solved", schedule |-> n]]
          PROVE  \E x \in Runs :
                    RunOK(x) /\ solverRuns' = [solverRuns EXCEPT ![r] = x]
      <4>0. n \in Nat
        BY DEF PageInv, RunTypes
      <4>1. [status |-> "solved", schedule |-> n] \in Runs
            /\ RunOK([status |-> "solved", schedule |-> n])
        BY <4>0 DEF RunOK, Runs, Statuses, Schedules
      <4>2. QED
        BY <3>2, <4>1
    <3>3. QED
      BY <2>1, <3>1, <3>2
  <2>4. solverRuns' \in Seq(Runs)
        /\ \A q \in DOMAIN solverRuns' : RunOK(solverRuns'[q])
    BY <2>2, <2>3 DEF PageInv, RunTypes
  <2>5. RunTypes' /\ Schedules' = Schedules
    BY <1>2, <2>4 DEF RunCompletes, PageInv, RunTypes, RunOK, Schedules
  <2>6. QED
    BY <1>2, <2>5, OthersKeep DEF RunCompletes
<1>3. CASE OthersRequest
  <2>1. RunTypes' /\ Schedules' = Schedules
    BY <1>3, PendingRunAdded DEF OthersRequest
  <2>2. QED
    BY <1>3, <2>1, OthersKeep DEF OthersRequest
<1>4. QED
  BY <1>1, <1>2, <1>3

\* The steps of the server for one call of a page.
ServerStep(p) ==
    \/ AnswersTrigger(p) \/ StoresSession(p)
    \/ \E c \in Names : AnswersStatus(p, c) \/ AnswersDetails(p, c) \/ FailsCall(p, c)

\* Whatever the server answers, it answers with schedules that there are, and it
\* posts nothing on its own.
LEMMA ServerKeeps ==
    ASSUME PageInv, NEW p \in Pages, ServerStep(p)
    PROVE  PageInv'
<1> USE DEF Names
<1>0. \A c \in Names : CallOK(calls[p][c])
  BY DEF PageInv
<1>1. ASSUME UNCHANGED <<solverRuns, stored>>
      PROVE  RunTypes' /\ Schedules \subseteq Schedules'
  BY <1>1 DEF PageInv, RunTypes, RunOK, Schedules
<1>2. CASE AnswersTrigger(p)
  <2>1. PICK pc \in {"accepted", "failed"} : calls' = [calls EXCEPT ![p]["generate"].pc = pc]
    BY <1>2 DEF AnswersTrigger
  <2>2. calls' = [calls EXCEPT ![p]["generate"] = [calls[p]["generate"] EXCEPT !.pc = pc]]
    BY <2>1 DEF PageInv
  <2>3. CallOK([calls[p]["generate"] EXCEPT !.pc = pc])
    BY <1>0 DEF CallOK
  <2>4. QED
    BY <1>2, <2>2, <2>3, OneCall, PendingRunAdded DEF AnswersTrigger
<1>3. CASE StoresSession(p)
  <2> DEFINE call == calls[p]["save"]
             n == call.schedule
             k == [call EXCEPT !.pc = "failed"]
  <2>1. PICK s \in DOMAIN call.body, t \in Sessions :
           stored' = [stored EXCEPT ![n][t] = call.body[s]]
    BY <1>3 DEF StoresSession
  <2>2. CallOK(call) /\ call.pc = "post"
    BY <1>0, <1>3 DEF StoresSession
  <2>3. call.body[s] \in Seats
    BY <2>1, <2>2 DEF CallOK, Views
  <2>4. RunTypes' /\ Schedules' = Schedules
    <3>1. stored \in Seq(Timetables)
      BY DEF PageInv, RunTypes
    <3>2. stored' \in Seq(Timetables) /\ DOMAIN stored' = DOMAIN stored
      <4>1. n \in DOMAIN stored
        BY <2>2 DEF CallOK, Schedules
      <4>2. stored[n] \in Timetables
        BY <3>1, <4>1
      <4>3. [stored[n] EXCEPT ![t] = call.body[s]] \in Timetables
        BY <2>3, <4>2 DEF Timetables
      <4>4. stored' = [stored EXCEPT ![n] = [stored[n] EXCEPT ![t] = call.body[s]]]
        BY <2>1
      <4>5. QED
        BY <3>1, <4>1, <4>3, <4>4
    <3>3. QED
      BY <1>3, <3>2 DEF StoresSession, PageInv, RunTypes, RunOK, Schedules
  <2>5. calls' = [calls EXCEPT ![p]["save"] = k]
    BY <1>3 DEF StoresSession, PageInv
  <2>6. CallOK(k) /\ k.pc = "failed"
    BY <2>2 DEF CallOK
  <2>7. UNCHANGED <<page, wishes>> /\ Schedules \subseteq Schedules' /\ "save" \in Names
    BY <1>3, <2>4 DEF StoresSession
  <2>8. calls[p]["save"].pc # "idle" /\ k.pc # "post"
    BY <2>2, <2>6
  <2> HIDE DEF k
  <2>9. QED
    BY <2>4, <2>5, <2>6, <2>7, <2>8, OneCall
<1>4. ASSUME NEW c \in Names, AnswersStatus(p, c)
      PROVE  PageInv'
  <2> DEFINE latest == IF solverRuns = << >> THEN [status |-> "none", schedule |-> 0]
                       ELSE solverRuns[Len(solverRuns)]
             k == [calls[p][c] EXCEPT !.pc = "statusBack", !.status = latest.status,
                                      !.schedule = latest.schedule]
  <2>1. latest \in Runs /\ RunOK(latest)
    <3>1. CASE solverRuns = << >>
      BY <3>1 DEF Runs, RunOK, Statuses
    <3>2. CASE solverRuns # << >>
      <4>1. solverRuns \in Seq(Runs) /\ \A r \in DOMAIN solverRuns : RunOK(solverRuns[r])
        BY DEF PageInv, RunTypes
      <4>2. Len(solverRuns) \in DOMAIN solverRuns
        BY <3>2, <4>1
      <4>3. QED
        BY <3>2, <4>1, <4>2
    <3>3. QED
      BY <3>1, <3>2
  <2>2. CallOK(k)
    BY <1>0, <2>1 DEF CallOK, Runs, RunOK, Statuses
  <2>3. calls' = [calls EXCEPT ![p][c] = k]
    BY <1>4 DEF AnswersStatus, PageInv
  <2>4. k.pc = "statusBack" /\ calls[p][c].pc = "status"
    BY <1>0, <1>4 DEF AnswersStatus, CallOK
  <2> HIDE DEF k
  <2>5. QED
    BY <1>1, <1>4, <2>2, <2>3, <2>4, OneCall DEF AnswersStatus
<1>5. ASSUME NEW c \in Names, AnswersDetails(p, c)
      PROVE  PageInv'
  <2> DEFINE k == [calls[p][c] EXCEPT !.pc = "detailsBack",
                                      !.body = stored[calls[p][c].schedule]]
  <2>1. stored[calls[p][c].schedule] \in Views
    <3>1. calls[p][c].schedule \in DOMAIN stored
      BY <1>0, <1>5 DEF AnswersDetails, CallOK, Schedules
    <3>2. stored \in Seq(Timetables)
      BY DEF PageInv, RunTypes
    <3>3. QED
      BY <3>1, <3>2 DEF Timetables, Views
  <2>2. CallOK(k)
    BY <1>0, <2>1 DEF CallOK
  <2>3. calls' = [calls EXCEPT ![p][c] = k]
    BY <1>5 DEF AnswersDetails, PageInv
  <2>4. k.pc = "detailsBack" /\ calls[p][c].pc = "details"
    BY <1>0, <1>5 DEF AnswersDetails, CallOK
  <2>5. QED
    BY <1>1, <1>5, <2>2, <2>3, <2>4, OneCall DEF AnswersDetails
<1>6. ASSUME NEW c \in Names, FailsCall(p, c)
      PROVE  PageInv'
  <2> DEFINE k == [calls[p][c] EXCEPT !.pc = "failed"]
  <2>1. CallOK(k)
    BY <1>0 DEF CallOK
  <2>2. calls' = [calls EXCEPT ![p][c] = k]
    BY <1>6 DEF FailsCall, PageInv
  <2>3. k.pc = "failed" /\ calls[p][c].pc # "idle"
    BY <1>0, <1>6 DEF FailsCall, CallOK
  <2>4. QED
    BY <1>1, <1>6, <2>1, <2>2, <2>3, OneCall DEF FailsCall
<1>7. QED
  BY <1>2, <1>3, <1>4, <1>5, <1>6 DEF ServerStep

------------------------------------------------------------------------------

\* A step of a page that leaves its edit as it is, and its save unless that ends.
LEMMA EditLeftAlone ==
    ASSUME PageInv, NEW p \in Pages, NEW c \in Names, NEW g, NEW k,
           UNCHANGED <<solverRuns, stored, wishes>>,
           page' = [page EXCEPT ![p] = g], PageOK(g),
           calls' = [calls EXCEPT ![p][c] = k], CallOK(k),
           g.edit = page[p].edit, g.unsaved = page[p].unsaved,
           g.drafts = page[p].drafts, g.originals = page[p].originals,
           c = "save" => k.pc = "idle"
    PROVE  PageInv'
<1>1. page'[p] = g /\ page' = [page EXCEPT ![p] = page'[p]]
      /\ wishes' = [wishes EXCEPT ![p] = wishes'[p]]
  BY DEF PageInv
<1>2. calls'[p][c] = k /\ calls' = [calls EXCEPT ![p][c] = calls'[p][c]]
  BY DEF PageInv
<1>3. RunTypes' /\ Schedules' = Schedules
  BY DEF PageInv, RunTypes, RunOK, Schedules
<1>4. PageOK(page[p])'
  BY <1>1, <1>3 DEF PageOK
<1>5. CallOK(calls[p][c])'
  BY <1>2, <1>3 DEF CallOK
<1>6. SaveOK(p)'
  <2>1. SaveOK(p)
    BY DEF PageInv
  <2>2. CASE c # "save"
    <3>1. calls'[p]["save"] = calls[p]["save"]
      BY <2>2 DEF PageInv, Names
    <3>2. QED
      BY <1>1, <2>1, <3>1 DEF SaveOK
  <2>3. CASE c = "save"
    BY <1>2, <2>3 DEF SaveOK
  <2>4. QED
    BY <2>2, <2>3
<1>7. DraftsOK(p)'
  <2>1. DraftsOK(p)
    BY DEF PageInv
  <2>2. QED
    BY <1>1, <2>1 DEF DraftsOK
<1>8. QED
  BY <1>1, <1>2, <1>3, <1>4, <1>5, <1>6, <1>7, OnePage

\* What arrives for a page leaves its edit alone, unless it is what was saved.
ArrivalStep(p) ==
    \/ Opens(p) \/ CheckArrives(p)
    \/ \E c \in Polls : PollStarts(p, c) \/ PollArrives(p, c)
    \/ \E c \in Names : DetailsArrive(p, c) \/ ErrorArrives(p, c)
    \/ GenerateAccepted(p) \/ GenerateArrives(p)

\* A call that is over.
LEMMA NothingIsOK ==
    CallOK(NoCall) /\ NoSessions \in Views
<1>1. NoSessions \in [{} -> Seats]
  BY DEF NoSessions
<1>2. NoSessions \in Views
  BY <1>1 DEF Views
<1>3. QED
  BY <1>2 DEF CallOK, NoCall, Statuses

\* Nothing that arrives breaks the invariant.
LEMMA ArrivalKeeps ==
    ASSUME PageInv, NEW p \in Pages, ArrivalStep(p)
    PROVE  PageInv'
<1> USE DEF Names
<1>0. PageOK(page[p]) /\ \A c \in Names : CallOK(calls[p][c])
  BY DEF PageInv
<1>1. CallOK(NoCall) /\ NoCall.pc = "idle" /\ NoSessions \in Views
  BY NothingIsOK DEF NoCall
<1>2. CASE Opens(p)
  <2> DEFINE g == [page[p] EXCEPT !.open = TRUE]
             k == [calls[p]["check"] EXCEPT !.pc = "status"]
  <2>1. page' = [page EXCEPT ![p] = g] /\ calls' = [calls EXCEPT ![p]["check"] = k]
    BY <1>2 DEF Opens, PageInv
  <2>2. /\ PageOK(g) /\ CallOK(k)
        /\ g.edit = page[p].edit /\ g.unsaved = page[p].unsaved
        /\ g.drafts = page[p].drafts /\ g.originals = page[p].originals
    BY <1>0 DEF PageOK, CallOK
  <2>3. UNCHANGED <<solverRuns, stored, wishes>>
    BY <1>2 DEF Opens
  <2> HIDE DEF g, k
  <2>4. QED
    BY <2>1, <2>2, <2>3, EditLeftAlone
<1>3. CASE CheckArrives(p)
  <2> DEFINE call == calls[p]["check"]
             g == IF call.status = "solved"
                  THEN [page[p] EXCEPT !.status = call.status, !.schedule = call.schedule]
                  ELSE [page[p] EXCEPT !.status = call.status, !.schedule = call.schedule,
                                       !.sessions = NoSessions,
                                       !.polling = @ \/ call.status = "pending"]
             k == IF call.status = "solved" THEN [call EXCEPT !.pc = "details"] ELSE NoCall
  <2>1. page' = [page EXCEPT ![p] = g] /\ calls' = [calls EXCEPT ![p]["check"] = k]
    BY <1>3 DEF CheckArrives, AsksForDetails, EndsCall, PageInv
  <2>2. /\ PageOK(g)
        /\ g.edit = page[p].edit /\ g.unsaved = page[p].unsaved
        /\ g.drafts = page[p].drafts /\ g.originals = page[p].originals
    BY <1>0, <1>1 DEF PageOK, CallOK
  <2>3. CallOK(k)
    BY <1>0, <1>1 DEF CallOK
  <2>4. UNCHANGED <<solverRuns, stored, wishes>>
    BY <1>3 DEF CheckArrives
  <2> HIDE DEF g, k
  <2>5. QED
    BY <2>1, <2>2, <2>3, <2>4, EditLeftAlone
<1>4. ASSUME NEW c \in Polls, PollStarts(p, c)
      PROVE  PageInv'
  <2> DEFINE k == [calls[p][c] EXCEPT !.pc = "status"]
  <2>1. page' = [page EXCEPT ![p] = page[p]] /\ calls' = [calls EXCEPT ![p][c] = k]
    BY <1>4 DEF PollStarts, PageInv
  <2>2. CallOK(k) /\ c # "save"
    BY <1>0, PageConstants DEF CallOK
  <2>3. UNCHANGED <<solverRuns, stored, wishes>>
    BY <1>4 DEF PollStarts
  <2> HIDE DEF k
  <2>4. QED
    BY <1>0, <2>1, <2>2, <2>3, EditLeftAlone
<1>5. ASSUME NEW c \in Polls, PollArrives(p, c)
      PROVE  PageInv'
  <2> DEFINE call == calls[p][c]
             g == [page[p] EXCEPT !.status = call.status, !.schedule = call.schedule,
                                  !.polling = @ /\ call.status = "pending"]
             k == IF call.status = "solved" THEN [call EXCEPT !.pc = "details"] ELSE NoCall
  <2>1. page' = [page EXCEPT ![p] = g] /\ calls' = [calls EXCEPT ![p][c] = k]
    BY <1>5 DEF PollArrives, AsksForDetails, EndsCall, PageInv
  <2>2. /\ PageOK(g)
        /\ g.edit = page[p].edit /\ g.unsaved = page[p].unsaved
        /\ g.drafts = page[p].drafts /\ g.originals = page[p].originals
    BY <1>0 DEF PageOK, CallOK
  <2>3. CallOK(k) /\ c # "save"
    BY <1>0, <1>1, PageConstants DEF CallOK
  <2>4. UNCHANGED <<solverRuns, stored, wishes>>
    BY <1>5 DEF PollArrives
  <2> HIDE DEF g, k
  <2>5. QED
    BY <2>1, <2>2, <2>3, <2>4, EditLeftAlone
<1>6. ASSUME NEW c \in Names, DetailsArrive(p, c)
      PROVE  PageInv'
  <2> DEFINE g == [page[p] EXCEPT !.sessions = calls[p][c].body]
  <2>1. page' = [page EXCEPT ![p] = g] /\ calls' = [calls EXCEPT ![p][c] = NoCall]
    BY <1>6 DEF DetailsArrive, EndsCall, PageInv
  <2>2. /\ PageOK(g)
        /\ g.edit = page[p].edit /\ g.unsaved = page[p].unsaved
        /\ g.drafts = page[p].drafts /\ g.originals = page[p].originals
    BY <1>0 DEF PageOK, CallOK
  <2>3. UNCHANGED <<solverRuns, stored, wishes>>
    BY <1>6 DEF DetailsArrive
  <2> HIDE DEF g
  <2>4. QED
    BY <1>1, <2>1, <2>2, <2>3, EditLeftAlone
<1>7. ASSUME NEW c \in Names, ErrorArrives(p, c)
      PROVE  PageInv'
  <2> DEFINE g == [page[p] EXCEPT !.polling = @ /\ c \notin Polls]
  <2>1. page' = [page EXCEPT ![p] = g] /\ calls' = [calls EXCEPT ![p][c] = NoCall]
    BY <1>7 DEF ErrorArrives, EndsCall, PageInv
  <2>2. /\ PageOK(g)
        /\ g.edit = page[p].edit /\ g.unsaved = page[p].unsaved
        /\ g.drafts = page[p].drafts /\ g.originals = page[p].originals
    BY <1>0 DEF PageOK
  <2>3. UNCHANGED <<solverRuns, stored, wishes>>
    BY <1>7 DEF ErrorArrives
  <2> HIDE DEF g
  <2>4. QED
    BY <1>1, <2>1, <2>2, <2>3, EditLeftAlone
<1>8. CASE GenerateAccepted(p)
  <2> DEFINE g == [page[p] EXCEPT !.confirm = FALSE]
             k == [calls[p]["generate"] EXCEPT !.pc = "status"]
  <2>1. page' = [page EXCEPT ![p] = g] /\ calls' = [calls EXCEPT ![p]["generate"] = k]
    BY <1>8 DEF GenerateAccepted, PageInv
  <2>2. /\ PageOK(g) /\ CallOK(k)
        /\ g.edit = page[p].edit /\ g.unsaved = page[p].unsaved
        /\ g.drafts = page[p].drafts /\ g.originals = page[p].originals
    BY <1>0 DEF PageOK, CallOK
  <2>3. UNCHANGED <<solverRuns, stored, wishes>>
    BY <1>8 DEF GenerateAccepted
  <2> HIDE DEF g, k
  <2>4. QED
    BY <2>1, <2>2, <2>3, EditLeftAlone
<1>9. CASE GenerateArrives(p)
  <2> DEFINE call == calls[p]["generate"]
             g == [page[p] EXCEPT !.status = call.status, !.schedule = call.schedule,
                                  !.polling = @ \/ call.status = "pending"]
  <2>1. page' = [page EXCEPT ![p] = g] /\ calls' = [calls EXCEPT ![p]["generate"] = NoCall]
    BY <1>9 DEF GenerateArrives, EndsCall, PageInv
  <2>2. /\ PageOK(g)
        /\ g.edit = page[p].edit /\ g.unsaved = page[p].unsaved
        /\ g.drafts = page[p].drafts /\ g.originals = page[p].originals
    BY <1>0 DEF PageOK, CallOK
  <2>3. UNCHANGED <<solverRuns, stored, wishes>>
    BY <1>9 DEF GenerateArrives
  <2> HIDE DEF g
  <2>4. QED
    BY <1>1, <2>1, <2>2, <2>3, EditLeftAlone
<1>10. QED
  BY <1>2, <1>3, <1>4, <1>5, <1>6, <1>7, <1>8, <1>9 DEF ArrivalStep

------------------------------------------------------------------------------

\* A step of a page after which nothing is edited, with no save under way.
LEMMA EditEnds ==
    ASSUME PageInv, NEW p \in Pages, NEW g, NEW k,
           UNCHANGED <<solverRuns, stored, wishes>>,
           page' = [page EXCEPT ![p] = g], PageOK(g), ~g.edit,
           calls' = [calls EXCEPT ![p]["save"] = k], CallOK(k), k.pc = "idle"
    PROVE  PageInv'
<1>1. page'[p] = g /\ page' = [page EXCEPT ![p] = page'[p]]
      /\ wishes' = [wishes EXCEPT ![p] = wishes'[p]]
  BY DEF PageInv
<1>2. "save" \in Names
  BY DEF Names
<1>3. calls'[p]["save"] = k /\ calls' = [calls EXCEPT ![p]["save"] = calls'[p]["save"]]
  BY <1>2 DEF PageInv
<1>4. RunTypes' /\ Schedules' = Schedules
  BY DEF PageInv, RunTypes, RunOK, Schedules
<1>5. PageOK(page[p])' /\ CallOK(calls[p]["save"])'
  BY <1>1, <1>3, <1>4 DEF PageOK, CallOK
<1>6. SaveOK(p)' /\ DraftsOK(p)'
  BY <1>1, <1>3 DEF SaveOK, DraftsOK
<1>7. QED
  BY <1>1, <1>2, <1>3, <1>4, <1>5, <1>6, OnePage

\* What a button does that does not belong to an edit.
ButtonStep(p) ==
    AsksToRegenerate(p) \/ ClosesConfirm(p) \/ Generates(p) \/ Refreshes(p) \/ ClosesQuestion(p)

\* None of these buttons breaks the invariant.
LEMMA ButtonKeeps ==
    ASSUME PageInv, NEW p \in Pages, ButtonStep(p)
    PROVE  PageInv'
<1> USE DEF Names
<1>0. PageOK(page[p]) /\ \A c \in Names : CallOK(calls[p][c])
  BY DEF PageInv
<1>1. ASSUME AsksToRegenerate(p) \/ ClosesConfirm(p) \/ ClosesQuestion(p)
      PROVE  PageInv'
  <2>1. PICK confirm \in BOOLEAN, asked \in {"nothing", page[p].asked} :
           page' = [page EXCEPT ![p] = [page[p] EXCEPT !.confirm = confirm, !.asked = asked]]
    <3>1. CASE AsksToRegenerate(p)
      <4>1. page' = [page EXCEPT ![p] = [page[p] EXCEPT !.confirm = TRUE,
                                                        !.asked = page[p].asked]]
        BY <1>0, <3>1 DEF AsksToRegenerate, PageInv, PageOK
      <4>2. QED
        BY <4>1
    <3>2. CASE ClosesConfirm(p)
      <4>1. page' = [page EXCEPT ![p] = [page[p] EXCEPT !.confirm = FALSE,
                                                        !.asked = page[p].asked]]
        BY <1>0, <3>2 DEF ClosesConfirm, PageInv, PageOK
      <4>2. QED
        BY <4>1
    <3>3. CASE ClosesQuestion(p)
      <4>1. page' = [page EXCEPT ![p] = [page[p] EXCEPT !.confirm = page[p].confirm,
                                                        !.asked = "nothing"]]
            /\ page[p].confirm \in BOOLEAN
        BY <1>0, <3>3 DEF ClosesQuestion, PageInv, PageOK
      <4>2. QED
        BY <4>1
    <3>4. QED
      BY <1>1, <3>1, <3>2, <3>3
  <2> DEFINE g == [page[p] EXCEPT !.confirm = confirm, !.asked = asked]
             k == calls[p]["check"]
  <2>2. /\ PageOK(g) /\ CallOK(k)
        /\ g.edit = page[p].edit /\ g.unsaved = page[p].unsaved
        /\ g.drafts = page[p].drafts /\ g.originals = page[p].originals
    BY <1>0 DEF PageOK
  <2>3. UNCHANGED <<solverRuns, stored, wishes>> /\ calls' = [calls EXCEPT ![p]["check"] = k]
    BY <1>1 DEF AsksToRegenerate, ClosesConfirm, ClosesQuestion, PageInv
  <2> HIDE DEF g, k
  <2>4. page' = [page EXCEPT ![p] = g]
    BY <2>1 DEF g
  <2>5. QED
    BY <2>2, <2>3, <2>4, EditLeftAlone
<1>2. CASE Generates(p)
  <2> DEFINE g == [page[p] EXCEPT !.confirm = FALSE]
             k == [calls[p]["generate"] EXCEPT !.pc = "trigger"]
  <2>1. page' = [page EXCEPT ![p] = g] /\ calls' = [calls EXCEPT ![p]["generate"] = k]
    BY <1>2 DEF Generates, PageInv
  <2>2. /\ PageOK(g) /\ CallOK(k)
        /\ g.edit = page[p].edit /\ g.unsaved = page[p].unsaved
        /\ g.drafts = page[p].drafts /\ g.originals = page[p].originals
    BY <1>0 DEF PageOK, CallOK
  <2>3. UNCHANGED <<solverRuns, stored, wishes>>
    BY <1>2 DEF Generates
  <2> HIDE DEF g, k
  <2>4. QED
    BY <2>1, <2>2, <2>3, EditLeftAlone
<1>3. CASE Refreshes(p)
  <2> DEFINE k == [calls[p]["refresh"] EXCEPT !.pc = "details", !.schedule = page[p].schedule]
  <2>1. page' = [page EXCEPT ![p] = page[p]] /\ calls' = [calls EXCEPT ![p]["refresh"] = k]
    <3>1. page' = [page EXCEPT ![p] = page[p]]
      BY <1>3 DEF Refreshes, PageInv
    <3>2. calls' = [calls EXCEPT ![p]["refresh"] = k]
      BY <1>3 DEF Refreshes
    <3>3. QED
      BY <3>1, <3>2
  <2>2. CallOK(k)
    BY <1>0, <1>3 DEF Refreshes, PageOK, CallOK
  <2>3. UNCHANGED <<solverRuns, stored, wishes>>
    BY <1>3 DEF Refreshes
  <2> HIDE DEF k
  <2>4. QED
    BY <1>0, <2>1, <2>2, <2>3, EditLeftAlone
<1>4. QED
  BY <1>1, <1>2, <1>3 DEF ButtonStep

\* A step of an edit that goes on and of which no call changes.
LEMMA EditGoesOn ==
    ASSUME PageInv, NEW p \in Pages, NEW g, NEW w,
           UNCHANGED <<solverRuns, stored, calls>>,
           page' = [page EXCEPT ![p] = g], wishes' = [wishes EXCEPT ![p] = w],
           PageOK(g), SaveOK(p)', DraftsOK(p)'
    PROVE  PageInv'
<1>1. page'[p] = g /\ page' = [page EXCEPT ![p] = page'[p]]
      /\ wishes' = [wishes EXCEPT ![p] = wishes'[p]]
  BY DEF PageInv
<1>2. "save" \in Names /\ calls' = [calls EXCEPT ![p]["save"] = calls'[p]["save"]]
  BY DEF PageInv, Names
<1>3. RunTypes' /\ Schedules' = Schedules
  BY DEF PageInv, RunTypes, RunOK, Schedules
<1>4. PageOK(page[p])'
  BY <1>1, <1>3 DEF PageOK
<1>5. CallOK(calls[p]["save"])'
  BY <1>2, <1>3 DEF PageInv, CallOK
<1>6. QED
  BY <1>1, <1>2, <1>3, <1>4, <1>5, OnePage

\* An edit begins with nothing dropped and no save under way.
LEMMA EnterKeeps ==
    ASSUME PageInv, NEW p \in Pages, EntersEdit(p)
    PROVE  PageInv'
<1> DEFINE g == [page[p] EXCEPT !.edit = TRUE, !.unsaved = FALSE,
                                !.drafts = page[p].sessions, !.originals = page[p].sessions]
<1>1. PageOK(page[p]) /\ SaveOK(p)
  BY DEF PageInv
<1>2. page' = [page EXCEPT ![p] = g] /\ wishes' = [wishes EXCEPT ![p] = {}]
  BY DEF EntersEdit, PageInv
<1>3. PageOK(g) /\ g.drafts = g.originals
  BY <1>1 DEF EntersEdit, Uncovered, PageOK
<1>4. SaveOK(p)'
  BY <1>1 DEF EntersEdit, SaveOK
<1>5. page'[p] = g
  BY <1>2 DEF PageInv
<1>6. DraftsOK(p)'
  BY <1>3, <1>5 DEF DraftsOK
<1>7. UNCHANGED <<solverRuns, stored, calls>>
  BY DEF EntersEdit
<1> HIDE DEF g
<1>8. QED
  BY <1>2, <1>3, <1>4, <1>6, <1>7, EditGoesOn

\* A session that is dropped is wished for, at the seat its draft now has.
LEMMA DropKeeps ==
    ASSUME PageInv, NEW p \in Pages, NEW s \in Sessions, NEW q \in Places, Drops(p, s, q)
    PROVE  PageInv'
<1> DEFINE drafts == page[p].drafts
           moved == [drafts EXCEPT ![s] = [drafts[s] EXCEPT !.place = q]]
           g == [page[p] EXCEPT !.drafts = moved, !.unsaved = TRUE]
           w == wishes[p] \cup {<<OfferingOf[s], moved[s]>>}
<1>1. PageOK(page[p]) /\ SaveOK(p) /\ DraftsOK(p)
  BY DEF PageInv
<1>2. page' = [page EXCEPT ![p] = g]
  BY DEF Drops, PageInv
<1>3. PICK S \in SUBSET Sessions : drafts \in [S -> Seats]
  BY <1>1 DEF PageOK, Views
<1>4. s \in S /\ [drafts[s] EXCEPT !.place = q] \in Seats
  BY <1>3, PageConstants DEF Drops
<1>5. moved \in [S -> Seats] /\ moved \in Views
  BY <1>3, <1>4 DEF Views
<1>6. PageOK(g) /\ g.drafts = moved /\ g.originals = page[p].originals /\ g.edit /\ g.unsaved
  BY <1>1, <1>5 DEF Drops, PageOK
<1>7. page'[p] = g
  BY <1>2 DEF PageInv
<1>8. wishes' = [wishes EXCEPT ![p] = w]
  BY <1>6, <1>7 DEF Drops
<1>9. wishes'[p] = w
  BY <1>8 DEF PageInv
<1>10. UNCHANGED <<solverRuns, stored, calls>>
  BY DEF Drops
<1>11. SaveOK(p)'
  BY <1>1, <1>6, <1>7, <1>9, <1>10 DEF SaveOK
<1>12. DraftsOK(p)'
  <2>1. \A t \in S : t # s => moved[t] = drafts[t]
    BY <1>3
  <2>2. page[p].edit /\ DOMAIN moved = DOMAIN drafts
    BY DEF Drops
  <2>3. QED
    BY <1>1, <1>3, <1>6, <1>7, <1>9, <2>1, <2>2 DEF DraftsOK
<1> HIDE DEF g, w, moved
<1>13. QED
  BY <1>2, <1>6, <1>8, <1>10, <1>11, <1>12, EditGoesOn

\* An edit ends, or its question is asked, while no save is under way or at the
\* end of one.
EndStep(p) == AsksToSave(p) \/ AsksToCancel(p) \/ Discards(p) \/ SaveArrives(p)

\* However an edit ends, the invariant holds of it and of its save.
LEMMA EndKeeps ==
    ASSUME PageInv, NEW p \in Pages, EndStep(p)
    PROVE  PageInv'
<1>0. /\ PageOK(page[p]) /\ SaveOK(p)
      /\ CallOK(calls[p]["save"]) /\ CallOK(calls[p]["check"])
  BY DEF PageInv, Names
<1>1. ASSUME UNCHANGED calls
      PROVE  /\ calls' = [calls EXCEPT ![p]["save"] = calls[p]["save"]]
             /\ calls' = [calls EXCEPT ![p]["check"] = calls[p]["check"]]
  BY <1>1 DEF PageInv
<1>2. ASSUME NEW asked \in {"save", "discard"}, asked = "save" => page[p].edit /\ page[p].unsaved,
             page' = [page EXCEPT ![p].asked = asked],
             UNCHANGED <<solverRuns, stored, calls, wishes>>
      PROVE  PageInv'
  <2> DEFINE g == [page[p] EXCEPT !.asked = asked]
  <2>1. page' = [page EXCEPT ![p] = g]
    BY <1>2 DEF PageInv
  <2>2. /\ PageOK(g)
        /\ g.edit = page[p].edit /\ g.unsaved = page[p].unsaved
        /\ g.drafts = page[p].drafts /\ g.originals = page[p].originals
    BY <1>0, <1>2 DEF PageOK
  <2>3. "check" \in Names /\ UNCHANGED <<solverRuns, stored, wishes>>
    BY <1>2 DEF Names
  <2>4. calls' = [calls EXCEPT ![p]["check"] = calls[p]["check"]]
    BY <1>1, <1>2
  <2> HIDE DEF g
  <2>5. QED
    BY <1>0, <2>1, <2>2, <2>3, <2>4, EditLeftAlone
<1>3. CASE AsksToSave(p)
  <2>1. CASE ~page[p].unsaved /\ page' = [page EXCEPT ![p].edit = FALSE]
    <3> DEFINE g == [page[p] EXCEPT !.edit = FALSE]
    <3>1. page' = [page EXCEPT ![p] = g]
      BY <2>1 DEF PageInv
    <3>2. PageOK(g) /\ ~g.edit
      BY <1>0, <1>3 DEF AsksToSave, Uncovered, PageOK
    <3>3. calls[p]["save"].pc = "idle"
      BY <1>0, <2>1 DEF SaveOK
    <3>4. UNCHANGED <<solverRuns, stored, calls, wishes>>
      BY <1>3 DEF AsksToSave
    <3> HIDE DEF g
    <3>5. QED
      BY <1>0, <1>1, <3>1, <3>2, <3>3, <3>4, EditEnds
  <2>2. CASE page[p].unsaved /\ page' = [page EXCEPT ![p].asked = "save"]
    BY <1>2, <1>3, <2>2 DEF AsksToSave
  <2>3. QED
    BY <1>3, <2>1, <2>2 DEF AsksToSave
<1>4. CASE AsksToCancel(p)
  <2>1. CASE page[p].unsaved
    BY <1>2, <1>4, <2>1 DEF AsksToCancel
  <2>2. CASE ~page[p].unsaved
    <3> DEFINE g == [page[p] EXCEPT !.drafts = page[p].originals, !.edit = FALSE]
    <3>1. page' = [page EXCEPT ![p] = g]
      BY <1>4, <2>2 DEF AsksToCancel, PageInv
    <3>2. PageOK(g) /\ ~g.edit
      BY <1>0, <1>4 DEF AsksToCancel, Uncovered, PageOK
    <3>3. calls[p]["save"].pc = "idle"
      BY <1>0, <2>2 DEF SaveOK
    <3>4. UNCHANGED <<solverRuns, stored, calls, wishes>>
      BY <1>4 DEF AsksToCancel
    <3> HIDE DEF g
    <3>5. QED
      BY <1>0, <1>1, <3>1, <3>2, <3>3, <3>4, EditEnds
  <2>3. QED
    BY <2>1, <2>2
<1>5. CASE Discards(p)
  <2> DEFINE g == [page[p] EXCEPT !.drafts = page[p].originals, !.unsaved = FALSE,
                                  !.edit = FALSE, !.asked = "nothing"]
  <2>1. page' = [page EXCEPT ![p] = g]
    BY <1>5 DEF Discards, PageInv
  <2>2. PageOK(g) /\ ~g.edit
    BY <1>0 DEF PageOK
  <2>3. UNCHANGED <<solverRuns, stored, calls, wishes>> /\ calls[p]["save"].pc = "idle"
    BY <1>5 DEF Discards
  <2> HIDE DEF g
  <2>4. QED
    BY <1>0, <1>1, <2>1, <2>2, <2>3, EditEnds
<1>6. CASE SaveArrives(p)
  <2> DEFINE details == calls[p]["save"].body
             g == [page[p] EXCEPT !.sessions = details, !.drafts = details,
                                  !.originals = details, !.unsaved = FALSE,
                                  !.edit = FALSE, !.asked = "nothing"]
  <2>1. page' = [page EXCEPT ![p] = g]
    BY <1>6 DEF SaveArrives, PageInv
  <2>2. PageOK(g) /\ ~g.edit
    BY <1>0 DEF PageOK, CallOK
  <2>3. UNCHANGED <<solverRuns, stored, wishes>>
        /\ calls' = [calls EXCEPT ![p]["save"] = NoCall]
    BY <1>6 DEF SaveArrives, EndsCall
  <2>4. CallOK(NoCall) /\ NoCall.pc = "idle"
    BY NothingIsOK DEF NoCall
  <2> HIDE DEF g
  <2>5. QED
    BY <2>1, <2>2, <2>3, <2>4, EditEnds
<1>7. QED
  BY <1>3, <1>4, <1>5, <1>6 DEF EndStep

\* What is posted differs from its original, so that it was dropped.
LEMMA SavesKeep ==
    ASSUME PageInv, NEW p \in Pages, Saves(p)
    PROVE  PageInv'
<1>1. PageOK(page[p]) /\ DraftsOK(p) /\ CallOK(calls[p]["save"]) /\ "save" \in Names
  BY DEF PageInv, Names
<1>2. page[p].edit /\ page[p].unsaved /\ page[p].schedule \in Schedules
  BY <1>1 DEF Saves, PageOK
<1>3. PICK k : /\ calls' = [calls EXCEPT ![p]["save"] = k] /\ CallOK(k)
               /\ k.pc = "post" => \A s \in DOMAIN k.body :
                                      <<OfferingOf[s], k.body[s]>> \in wishes[p]
  <2>1. CASE calls' = [calls EXCEPT ![p]["save"].pc = "details",
                                    ![p]["save"].schedule = page[p].schedule]
    <3> DEFINE k == [calls[p]["save"] EXCEPT !.pc = "details", !.schedule = page[p].schedule]
    <3>1. calls' = [calls EXCEPT ![p]["save"] = k]
      BY <2>1
    <3>2. CallOK(k) /\ k.pc # "post"
      BY <1>1, <1>2 DEF CallOK, PageOK
    <3> HIDE DEF k
    <3>3. QED
      BY <3>1, <3>2
  <2>2. ASSUME NEW s \in FirstChanged(p),
               calls' = [calls EXCEPT ![p]["save"].pc = "post",
                                      ![p]["save"].schedule = page[p].schedule,
                                      ![p]["save"].body = [t \in {s} |-> page[p].drafts[t]]]
        PROVE  \E k : /\ calls' = [calls EXCEPT ![p]["save"] = k] /\ CallOK(k)
                      /\ k.pc = "post" => \A t \in DOMAIN k.body :
                                             <<OfferingOf[t], k.body[t]>> \in wishes[p]
    <3> DEFINE body == [t \in {s} |-> page[p].drafts[t]]
               k == [calls[p]["save"] EXCEPT !.pc = "post", !.schedule = page[p].schedule,
                                             !.body = body]
    <3>1. calls' = [calls EXCEPT ![p]["save"] = k]
      BY <2>2
    <3>2. s \in DOMAIN page[p].drafts /\ page[p].drafts[s].place # page[p].originals[s].place
      BY DEF FirstChanged, Changed
    <3>3. <<OfferingOf[s], page[p].drafts[s]>> \in wishes[p]
      BY <1>1, <1>2, <3>2 DEF DraftsOK
    <3>4. body \in Views
      <4>1. PICK S \in SUBSET Sessions : page[p].drafts \in [S -> Seats]
        BY <1>1 DEF PageOK, Views
      <4>2. body \in [{s} -> Seats] /\ {s} \in SUBSET Sessions
        BY <3>2, <4>1
      <4>3. QED
        BY <4>2 DEF Views
    <3>5. CallOK(k) /\ k.body = body
      BY <1>1, <1>2, <3>4 DEF CallOK, PageOK
    <3>6. \A t \in DOMAIN k.body : <<OfferingOf[t], k.body[t]>> \in wishes[p]
      BY <3>3, <3>5
    <3> HIDE DEF k
    <3>7. QED
      BY <3>1, <3>5, <3>6
  <2>3. QED
    BY <2>1, <2>2 DEF Saves
<1>4. UNCHANGED <<solverRuns, stored, page, wishes>>
  BY DEF Saves
<1>5. RunTypes' /\ Schedules' = Schedules
  BY <1>4 DEF PageInv, RunTypes, RunOK, Schedules
<1>6. page' = [page EXCEPT ![p] = page'[p]] /\ wishes' = [wishes EXCEPT ![p] = wishes'[p]]
  BY <1>4 DEF PageInv
<1>7. calls'[p]["save"] = k /\ calls' = [calls EXCEPT ![p]["save"] = calls'[p]["save"]]
  BY <1>1, <1>3 DEF PageInv
<1>8. PageOK(page[p])' /\ CallOK(calls[p]["save"])'
  BY <1>1, <1>3, <1>4, <1>5, <1>7 DEF PageOK, CallOK
<1>9. SaveOK(p)'
  BY <1>2, <1>3, <1>4, <1>7 DEF SaveOK
<1>10. DraftsOK(p)'
  BY <1>1, <1>4 DEF DraftsOK
<1>11. QED
  BY <1>1, <1>5, <1>6, <1>7, <1>8, <1>9, <1>10, OnePage

------------------------------------------------------------------------------

\* Every step of a page is one of those above.
LEMMA PageStepKeeps ==
    ASSUME PageInv, NEW p \in Pages, PageStep(p)
    PROVE  PageInv'
<1>1. CASE ServerStep(p)
  BY <1>1, ServerKeeps
<1>2. CASE ArrivalStep(p)
  BY <1>2, ArrivalKeeps
<1>3. CASE ButtonStep(p)
  BY <1>3, ButtonKeeps
<1>4. CASE EntersEdit(p) \/ Saves(p)
  BY <1>4, EnterKeeps, SavesKeep
<1>5. ASSUME NEW s \in Sessions, NEW q \in Places, Drops(p, s, q)
      PROVE  PageInv'
  BY <1>5, DropKeeps
<1>6. CASE EndStep(p)
  BY <1>6, EndKeeps
<1>7. QED
  BY <1>1, <1>2, <1>3, <1>4, <1>5, <1>6
     DEF PageStep, ServerStep, ArrivalStep, ButtonStep, EndStep

\* Every step of anybody keeps the invariant.
LEMMA PageInvNext ==
    ASSUME PageInv, [PagesNext]_pageVars
    PROVE  PageInv'
<1>1. CASE SolverStores \/ RunCompletes \/ OthersRequest
  BY <1>1, RunsKeep
<1>2. ASSUME NEW p \in Pages, PageStep(p)
      PROVE  PageInv'
  BY <1>2, PageStepKeeps
<1>3. CASE UNCHANGED pageVars
  <2>1. UNCHANGED <<solverRuns, stored, page, calls, wishes>>
    BY <1>3 DEF pageVars
  <2>2. RunTypes' /\ Schedules' = Schedules
    BY <2>1 DEF PageInv, RunTypes, RunOK, Schedules
  <2>3. QED
    BY <2>1, <2>2, OthersKeep
<1>4. QED
  BY <1>1, <1>2, <1>3 DEF PagesNext

\* The invariant of the pages: whatever a page shows, drafts or posts are sessions
\* and seats of a schedule that there is, a draft differs from the copy its edit
\* began with only where a session was dropped, and a save belongs to an edit that
\* goes on until the save has ended.
THEOREM PageInvariant == PagesSpec => []PageInv
<1>1. PagesInit => PageInv
  BY PageInvInit
<1>2. PageInv /\ [PagesNext]_pageVars => PageInv'
  BY PageInvNext
<1>3. QED
  BY <1>1, <1>2, PTL DEF PagesSpec

\* What was posted, and only that, is stored in a row of the offering it is for.
LEMMA StoredAsPosted ==
    ASSUME PageInv, NEW p \in Pages, StoresSession(p),
           NEW n \in DOMAIN stored, NEW s \in Sessions, stored'[n][s] # stored[n][s]
    PROVE  <<OfferingOf[s], stored'[n][s]>> \in wishes[p]
<1> DEFINE call == calls[p]["save"]
           m == call.schedule
<1>1. PICK r \in DOMAIN call.body, t \in Sessions :
         /\ OfferingOf[t] = OfferingOf[r]
         /\ stored' = [stored EXCEPT ![m][t] = call.body[r]]
  BY DEF StoresSession
<1>2. <<OfferingOf[r], call.body[r]>> \in wishes[p]
  BY <1>1 DEF StoresSession, PageInv, SaveOK
<1>3. stored \in Seq(Timetables)
  BY DEF PageInv, RunTypes
<1>4. stored[n] \in Timetables
  BY <1>3
<1>5. n = m
  BY <1>1, <1>3
<1>6. stored'[n] = [stored[n] EXCEPT ![t] = call.body[r]]
  BY <1>1, <1>3, <1>5
<1>7. s = t /\ stored'[n][s] = call.body[r]
  BY <1>4, <1>6 DEF Timetables
<1>8. QED
  BY <1>1, <1>2, <1>7

\* No other step of a page stores anything.
LEMMA OthersStoreNothing ==
    ASSUME NEW p \in Pages, PageStep(p), stored' # stored
    PROVE  StoresSession(p)
<1>1. ASSUME NEW c \in Names,
             \/ AnswersStatus(p, c) \/ AnswersDetails(p, c) \/ FailsCall(p, c)
             \/ DetailsArrive(p, c) \/ ErrorArrives(p, c)
      PROVE  FALSE
  BY <1>1 DEF AnswersStatus, AnswersDetails, FailsCall, DetailsArrive, ErrorArrives
<1>2. ASSUME NEW c \in Polls, PollStarts(p, c) \/ PollArrives(p, c)
      PROVE  FALSE
  BY <1>2 DEF PollStarts, PollArrives
<1>3. ASSUME \/ AnswersTrigger(p) \/ Opens(p) \/ CheckArrives(p)
             \/ GenerateAccepted(p) \/ GenerateArrives(p) \/ ButtonStep(p)
      PROVE  FALSE
  BY <1>3 DEF AnswersTrigger, Opens, CheckArrives, GenerateAccepted, GenerateArrives,
              ButtonStep, AsksToRegenerate, ClosesConfirm, Generates, Refreshes, ClosesQuestion
<1>4. ASSUME EntersEdit(p) \/ EndStep(p) \/ Saves(p)
      PROVE  FALSE
  BY <1>4 DEF EntersEdit, EndStep, AsksToSave, AsksToCancel, Discards, SaveArrives, Saves
<1>5. ASSUME NEW s \in Sessions, NEW q \in Places, Drops(p, s, q)
      PROVE  FALSE
  BY <1>5 DEF Drops
<1>6. QED
  BY <1>1, <1>2, <1>3, <1>4, <1>5 DEF PageStep, ButtonStep, EndStep

\* However many pages edit a schedule, and whatever the solver stores, runs are
\* completed and schedules read again meanwhile, a save stores nothing but what was
\* dropped in the edit it belongs to (didSessionChange, saveEditedSchedule).
THEOREM OnlyHerMovesAreSaved == PagesSpec => SavesOnlyHerMoves
<1>1. ASSUME PageInv, PagesNext, ~SolverStores,
             NEW n \in DOMAIN stored, NEW s \in Sessions, stored'[n][s] # stored[n][s]
      PROVE  \E p \in Pages : <<OfferingOf[s], stored'[n][s]>> \in wishes[p]
  <2>1. stored' # stored
    BY <1>1
  <2>2. PICK p \in Pages : PageStep(p)
    BY <1>1, <2>1 DEF PagesNext, RunCompletes, OthersRequest
  <2>3. StoresSession(p)
    BY <2>1, <2>2, OthersStoreNothing
  <2>4. QED
    BY <1>1, <2>3, StoredAsPosted
<1>2. PageInv /\ [PagesNext]_pageVars =>
         [\A n \in DOMAIN stored, s \in Sessions :
             (n \in DOMAIN stored' /\ stored'[n][s] # stored[n][s]) =>
                 \/ SolverStores
                 \/ \E p \in Pages : <<OfferingOf[s], stored'[n][s]>> \in wishes[p]]_pageVars
  BY <1>1
<1>3. QED
  BY <1>2, PageInvariant, PTL DEF PagesSpec, SavesOnlyHerMoves
=============================================================================
