---------------------------- MODULE NoticesProofs ----------------------------
(***************************************************************************)
(* What holds of notices for any values of the constants: of their         *)
(* delivery and of the links of their recipients (Notifications), and of   *)
(* the period events that make them (PeriodEvents).                        *)
(*                                                                         *)
(* LinkInv is inductive: a token in a row was put there by one of the      *)
(* writes of tokens, no other row holds it, and after a link was opened    *)
(* no row has a token from the write that it opened.                       *)
(*                                                                         *)
(* DeliveryInv is inductive.  The consumer's message is the head of the    *)
(* queue and a request's is nowhere else (JobInv), so that no two workers  *)
(* send the same message; what a worker has still to send was not tried    *)
(* since it took the message (TriedInv), which was taken once more at most *)
(* for each breakdown (TakenInv); and what a message was found to need is  *)
(* tried or still to be done (PlannedInv).  That reading the profiles      *)
(* leaves each channel of each recipient to be sent once is a fact about   *)
(* two loops of the code (ToSendIsNeeded).                                 *)
(*                                                                         *)
(* Types says what an actor's agenda holds and that the row it is busy     *)
(* with is reserved.  SentInv follows a row of period events from its      *)
(* reservation to its mark; CountInv counts the copies of a notice against *)
(* those who have sent one and those who still may.                        *)
(***************************************************************************)
EXTENDS Notifications, PeriodEvents, LoopLemmas, FiniteSetTheorems, SequenceTheorems

-----------------------------------------------------------------------------
(* Links *)

Account ==
    [chat : Chats \cup {NoChat}, token : Nat, enabled : BOOLEAN, mail : BOOLEAN, at : Nat]
Openings == [token : Nat, user : Users, chat : Chats, write : Nat]

LinkTypes ==
    /\ accounts \in [Users -> Account]
    /\ second \in Nat
    /\ issued \in Seq([token : Nat, user : Users])
    /\ source \in [Users -> Nat]
    /\ starting \in [StartRequests -> SUBSET Users]
    /\ opened \in SUBSET Openings

\* A token is made before it is written again.
IssuedInv == \A i \in DOMAIN issued : issued[i].token \in 1 .. i

\* A token in a row was put there, and is in no other row.
TokensInv ==
    \A u \in Users : accounts[u].token # 0 =>
        /\ source[u] \in DOMAIN issued
        /\ issued[source[u]] = [token |-> accounts[u].token, user |-> u]
        /\ \A v \in Users \ {u} : accounts[v].token # accounts[u].token

\* What was opened was put in a row, and that row has it no more, unless it was
\* put there again.
OpenedInv ==
    \A o \in opened :
        /\ o.write \in DOMAIN issued
        /\ issued[o.write] = [token |-> o.token, user |-> o.user]
        /\ \A u \in Users : accounts[u].token # 0 => source[u] # o.write
        /\ \A p \in opened : o.write = p.write => o = p

LinkInv == LinkTypes /\ IssuedInv /\ TokensInv /\ OpenedInv

linkState == <<accounts, second, issued, source, starting, opened>>

\* The invariant holds of the accounts before the first link is made.
LEMMA LinkInvInit ==
    ASSUME NoticesInit
    PROVE  LinkInv
<1>1. NoAccount \in Account /\ NoAccount.token = 0
  BY DEF NoAccount, Account
<1>2. LinkTypes
  BY <1>1 DEF NoticesInit, LinkTypes
<1>3. IssuedInv /\ TokensInv /\ OpenedInv
  BY <1>1 DEF NoticesInit, IssuedInv, TokensInv, OpenedInv
<1>4. QED
  BY <1>2, <1>3 DEF LinkInv

\* Steps of the service that do not concern links.
LEMMA LinkUntouched ==
    ASSUME LinkInv, UNCHANGED <<accounts, issued, source, opened>>, second' \in Nat,
           starting' \in [StartRequests -> SUBSET Users]
    PROVE  LinkInv'
BY DEF LinkInv, LinkTypes, IssuedInv, TokensInv, OpenedInv

\* Rows are written without a token that was not there before.
LEMMA TokensOnlyGo ==
    ASSUME LinkInv, UNCHANGED <<second, issued, source, starting, opened>>,
           accounts' \in [Users -> Account],
           \A u \in Users : accounts'[u].token = accounts[u].token \/ accounts'[u].token = 0
    PROVE  LinkInv'
<1>1. LinkTypes' /\ IssuedInv'
  BY DEF LinkInv, LinkTypes, IssuedInv
<1>2. TokensInv'
  BY DEF LinkInv, TokensInv
<1>3. OpenedInv'
  BY DEF LinkInv, OpenedInv
<1>4. QED
  BY <1>1, <1>2, <1>3 DEF LinkInv

\* A token in a row is one of those that were put in one.
LEMMA TokenIsIssued ==
    ASSUME LinkInv, NEW u \in Users
    PROVE  accounts[u].token < NewToken
<1>1. issued \in Seq([token : Nat, user : Users]) /\ accounts[u].token \in Nat
  BY DEF LinkInv, LinkTypes, Account
<1>2. Len(issued) \in Nat /\ DOMAIN issued = 1 .. Len(issued)
  BY <1>1
<1>3. CASE accounts[u].token # 0
  <2>1. /\ source[u] \in DOMAIN issued
        /\ issued[source[u]] = [token |-> accounts[u].token, user |-> u]
    BY <1>3 DEF LinkInv, TokensInv
  <2>2. accounts[u].token \in 1 .. source[u]
    BY <2>1 DEF LinkInv, IssuedInv
  <2>3. QED
    BY <1>2, <2>1, <2>2 DEF NewToken
<1>4. QED
  BY <1>1, <1>2, <1>3 DEF NewToken

\* A link is opened: its token leaves the row of its user.
LEMMA TokenOpened ==
    ASSUME LinkInv, NEW token \in DOMAIN issued, NEW chat \in Chats, LinksByToken(token, chat)
    PROVE  LinkInv'
<1>1. PICK u \in Users :
        /\ TokenAccepted(accounts[u], token)
        /\ accounts' = [accounts EXCEPT ![u] = Linked(accounts[u], chat)]
        /\ opened' = opened \cup {Opening(u, token, chat)}
        /\ UNCHANGED <<second, issued, source, starting>>
  BY DEF LinksByToken
<1> DEFINE o == Opening(u, token, chat)
<1>2. token \in Nat /\ token # 0 /\ accounts[u].token = token
  <2>1. issued \in Seq([token : Nat, user : Users])
    BY DEF LinkInv, LinkTypes
  <2>2. DOMAIN issued = 1 .. Len(issued) /\ Len(issued) \in Nat
    BY <2>1
  <2>3. QED
    BY <1>1, <2>2 DEF TokenAccepted
<1>3. source[u] \in DOMAIN issued /\ source[u] \in Nat /\ issued[source[u]] = [token |-> token, user |-> u]
  BY <1>2 DEF LinkInv, LinkTypes, TokensInv
<1>4. Linked(accounts[u], chat) \in Account /\ Linked(accounts[u], chat).token = 0
  BY DEF LinkInv, LinkTypes, Linked, Account
<1>5. /\ accounts' \in [Users -> Account]
      /\ \A v \in Users : accounts'[v].token = IF v = u THEN 0 ELSE accounts[v].token
  BY <1>1, <1>4 DEF LinkInv, LinkTypes
<1>6. o \in Openings /\ o.token = token /\ o.user = u /\ o.write = source[u]
  BY <1>2, <1>3 DEF Opening, Openings
<1> HIDE DEF o
<1>7. LinkTypes' /\ IssuedInv'
  BY <1>1, <1>5, <1>6 DEF LinkInv, LinkTypes, IssuedInv, o
<1>8. TokensInv'
  BY <1>1, <1>5 DEF LinkInv, TokensInv
<1>9. \A v \in Users : accounts'[v].token # 0 => source[v] # o.write
  <2> SUFFICES ASSUME NEW v \in Users, accounts'[v].token # 0, source[v] = source[u]
               PROVE  FALSE
    BY <1>6
  <2>1. v # u /\ accounts[v].token # 0
    BY <1>5
  <2>2. issued[source[v]] = [token |-> accounts[v].token, user |-> v]
    BY <2>1 DEF LinkInv, TokensInv
  <2>3. QED
    BY <1>3, <2>1, <2>2
<1>10. \A p \in opened : p.write # o.write
  <2> TAKE p \in opened
  <2>1. accounts[u].token # 0 => source[u] # p.write
    BY DEF LinkInv, OpenedInv
  <2>2. QED
    BY <1>2, <1>6, <2>1
<1>11. OpenedInv'
  BY <1>1, <1>3, <1>5, <1>6, <1>9, <1>10 DEF LinkInv, OpenedInv, o
<1>12. QED
  BY <1>7, <1>8, <1>11 DEF LinkInv

\* A token that no other row has is put in a row: the one before, if any, works no
\* more.
LEMMA TokenPut ==
    ASSUME LinkInv, NEW u \in Users, NEW a \in Account, a.token \in 1 .. NewToken,
           \A v \in Users \ {u} : accounts[v].token # a.token,
           Puts(u, a.token), accounts' = [accounts EXCEPT ![u] = a],
           UNCHANGED <<second, opened>>, starting' \in [StartRequests -> SUBSET Users]
    PROVE  LinkInv'
<1> DEFINE S == [token : Nat, user : Users]
           k == Len(issued) + 1
           w == [token |-> a.token, user |-> u]
<1>1. issued \in Seq(S) /\ source \in [Users -> Nat] /\ w \in S /\ w.token = a.token
  BY DEF LinkInv, LinkTypes, Account
<1>2. issued' = Append(issued, w) /\ source' = [source EXCEPT ![u] = k] /\ k = NewToken
  BY DEF Puts, NewToken
<1> HIDE DEF w, S
<1>3. /\ issued' \in Seq(S) /\ k \in Nat
      /\ \A j \in DOMAIN issued : j \in DOMAIN issued' /\ issued'[j] = issued[j] /\ j # k
      /\ \A j \in DOMAIN issued' : j \in DOMAIN issued \/ j = k
      /\ k \in DOMAIN issued' /\ issued'[k] = w
  BY <1>1, <1>2, AppendProperties
<1> HIDE DEF k
<1>4. /\ accounts' \in [Users -> Account] /\ source' \in [Users -> Nat]
      /\ \A v \in Users : /\ accounts'[v] = IF v = u THEN a ELSE accounts[v]
                          /\ source'[v] = IF v = u THEN k ELSE source[v]
  BY <1>1, <1>2, <1>3 DEF LinkInv, LinkTypes
<1>5. LinkTypes'
  BY <1>3, <1>4 DEF LinkInv, LinkTypes, S
<1>6. IssuedInv'
  BY <1>1, <1>2, <1>3 DEF LinkInv, IssuedInv
<1>7. TokensInv'
  <2> SUFFICES ASSUME NEW v \in Users, accounts'[v].token # 0
               PROVE  /\ source'[v] \in DOMAIN issued'
                      /\ issued'[source'[v]] = [token |-> accounts'[v].token, user |-> v]
                      /\ \A x \in Users \ {v} : accounts'[x].token # accounts'[v].token
    BY DEF TokensInv
  <2>1. CASE v = u
    BY <1>3, <1>4, <2>1 DEF w
  <2>2. CASE v # u
    BY <1>3, <1>4, <2>2 DEF LinkInv, TokensInv
  <2>3. QED
    BY <2>1, <2>2
<1>8. OpenedInv'
  <2> SUFFICES ASSUME NEW o \in opened
               PROVE  /\ o.write \in DOMAIN issued'
                      /\ issued'[o.write] = [token |-> o.token, user |-> o.user]
                      /\ \A v \in Users : accounts'[v].token # 0 => source'[v] # o.write
                      /\ \A p \in opened : o.write = p.write => o = p
    BY DEF OpenedInv
  <2>1. /\ o.write \in DOMAIN issued
        /\ issued[o.write] = [token |-> o.token, user |-> o.user]
        /\ \A v \in Users : accounts[v].token # 0 => source[v] # o.write
        /\ \A p \in opened : o.write = p.write => o = p
    BY DEF LinkInv, OpenedInv
  <2>2. QED
    BY <1>3, <1>4, <2>1
<1>9. QED
  BY <1>5, <1>6, <1>7, <1>8 DEF LinkInv

\* A new token is given to a row.
LEMMA TokenIssued ==
    ASSUME LinkInv, NEW r \in StartRequests, StartSets(r)
    PROVE  LinkInv'
<1>1. PICK u \in starting[r] :
        /\ Puts(u, NewToken)
        /\ accounts' = [accounts EXCEPT
              ![u] = [accounts[u] EXCEPT !.token = NewToken, !.enabled = TRUE, !.at = second]]
  BY DEF StartSets
<1>2. u \in Users /\ accounts[u] \in Account /\ second \in Nat /\ NewToken \in Nat \ {0}
  BY DEF LinkInv, LinkTypes, NewToken
<1> DEFINE a == [accounts[u] EXCEPT !.token = NewToken, !.enabled = TRUE, !.at = second]
<1>3. a \in Account /\ a.token = NewToken /\ NewToken \in 1 .. NewToken
  <2>1. NewToken \in 1 .. NewToken
    BY <1>2
  <2> HIDE DEF NewToken
  <2>2. QED
    BY <1>2, <2>1 DEF Account
<1>4. UNCHANGED <<second, opened>> /\ starting' \in [StartRequests -> SUBSET Users]
  BY DEF StartSets, LinkInv, LinkTypes
<1>5. \A v \in Users \ {u} : accounts[v].token # NewToken
  <2> TAKE v \in Users \ {u}
  <2>1. accounts[v].token < NewToken /\ accounts[v].token \in Nat
    BY TokenIsIssued DEF LinkInv, LinkTypes, Account
  <2>2. QED
    BY <1>2, <2>1
<1>6. Puts(u, a.token) /\ accounts' = [accounts EXCEPT ![u] = a]
  BY <1>1, <1>3
<1> HIDE DEF a
<1>7. QED
  BY <1>2, <1>3, <1>4, <1>5, <1>6, TokenPut

\* A development request writes a row, and a token that it may have found anywhere.
LEMMA RowUpserted ==
    ASSUME LinkInv, NEW u \in Users, NEW row \in UpsertedRows(u), DevUpserts(u, row)
    PROVE  LinkInv'
<1>1. /\ row.token # 0 => \A v \in Users \ {u} : accounts[v].token # row.token
      /\ accounts' = [accounts EXCEPT ![u] = row]
      /\ IF row.token \in {0, accounts[u].token} THEN UNCHANGED <<issued, source>>
         ELSE Puts(u, row.token)
      /\ UNCHANGED <<second, starting, opened>>
  BY DEF DevUpserts
<1>2. /\ issued \in Seq([token : Nat, user : Users]) /\ second \in Nat
      /\ accounts \in [Users -> Account] /\ starting \in [StartRequests -> SUBSET Users]
  BY DEF LinkInv, LinkTypes
<1>3. /\ Len(issued) \in Nat /\ DOMAIN issued = 1 .. Len(issued) /\ NewToken = Len(issued) + 1
  BY <1>2 DEF NewToken
<1>4. \A i \in DOMAIN issued : issued[i].token \in 1 .. NewToken
  BY <1>3 DEF LinkInv, IssuedInv
<1>5. row \in WritableRows /\ row.token \in {0} \cup 1 .. NewToken
  BY <1>3, <1>4 DEF UpsertedRows, WritableRows
<1>6. row \in Account
  BY <1>2, <1>3, <1>5 DEF WritableRows, Account
<1>7. CASE row.token \in {0, accounts[u].token}
  <2>1. /\ accounts' \in [Users -> Account] /\ UNCHANGED <<second, issued, source, starting, opened>>
        /\ \A v \in Users : accounts'[v].token = accounts[v].token \/ accounts'[v].token = 0
    BY <1>1, <1>2, <1>6, <1>7
  <2>2. QED
    BY <2>1, TokensOnlyGo
<1>8. CASE row.token \notin {0, accounts[u].token}
  <2>1. /\ row.token \in 1 .. NewToken /\ Puts(u, row.token)
        /\ \A v \in Users \ {u} : accounts[v].token # row.token
    BY <1>1, <1>5, <1>8
  <2>2. QED
    BY <1>1, <1>2, <1>6, <2>1, TokenPut
<1>9. QED
  BY <1>7, <1>8

\* Every step keeps what is known of the tokens.
LEMMA LinkInvStep ==
    ASSUME LinkInv, [NoticesNext]_noticeVars
    PROVE  LinkInv'
<1>0. /\ accounts \in [Users -> Account] /\ second \in Nat
      /\ starting \in [StartRequests -> SUBSET Users]
  BY DEF LinkInv, LinkTypes
<1>1. CASE UNCHANGED linkState
  BY <1>0, <1>1, LinkUntouched DEF linkState
<1>2. ASSUME NEW r \in StartRequests, NEW u \in Users, StartReads(r, u)
      PROVE  LinkInv'
  BY <1>0, <1>2, LinkUntouched DEF StartReads
<1>3. ASSUME NEW u \in Users, NEW a \in Account,
             a.token = accounts[u].token \/ a.token = 0,
             accounts' = [accounts EXCEPT ![u] = a],
             UNCHANGED <<second, issued, source, starting, opened>>
      PROVE  LinkInv'
  BY <1>0, <1>3, TokensOnlyGo
<1>4. ASSUME NEW u \in Users, NEW chat \in Chats, LinksByCredentials(u, chat)
      PROVE  LinkInv'
  <2>1. Linked(accounts[u], chat) \in Account /\ Linked(accounts[u], chat).token = 0
    BY <1>0 DEF Linked, Account
  <2>2. QED
    BY <1>3, <1>4, <2>1 DEF LinksByCredentials
<1>5. ASSUME NEW u \in Users, PhoneChanges(u)
      PROVE  LinkInv'
  <2>1. [accounts[u] EXCEPT !.at = second] \in Account
    BY <1>0 DEF Account
  <2>2. [accounts[u] EXCEPT !.at = second].token = accounts[u].token
    BY <1>0 DEF Account
  <2>3. /\ accounts' = [accounts EXCEPT ![u] = [accounts[u] EXCEPT !.at = second]]
        /\ UNCHANGED <<second, issued, source, starting, opened>>
    BY <1>0, <1>5 DEF PhoneChanges, BackendWrites
  <2>4. QED
    BY <1>3, <2>1, <2>2, <2>3
<1>6. ASSUME NEW u \in Users, NEW row \in UpsertedRows(u), DevUpserts(u, row)
      PROVE  LinkInv'
  BY <1>6, RowUpserted
<1>7. ASSUME NEW u \in Users, DevDeletesAccount(u)
      PROVE  LinkInv'
  <2>1. NoAccount \in Account /\ NoAccount.token = 0
    BY DEF NoAccount, Account
  <2>2. QED
    BY <1>3, <1>7, <2>1 DEF DevDeletesAccount, BackendWrites
<1>8. CASE DevClearsTelegram
  <2> DEFINE a(u) == [accounts[u] EXCEPT !.chat = NoChat, !.token = 0, !.at = second]
  <2>1. \A u \in Users : a(u) \in Account /\ a(u).token = 0
    BY <1>0 DEF Account
  <2>2. \A u \in Users : accounts'[u] = a(u) \/ accounts'[u] = accounts[u]
    BY <1>8 DEF DevClearsTelegram, BackendWrites
  <2>3. accounts' = [u \in Users |-> accounts'[u]]
    BY <1>8 DEF DevClearsTelegram, BackendWrites
  <2> HIDE DEF a
  <2>4. accounts' \in [Users -> Account]
    BY <1>0, <2>1, <2>2, <2>3
  <2>5. QED
    BY <1>8, <2>1, <2>2, <2>4, TokensOnlyGo DEF DevClearsTelegram, BackendWrites
<1>9. CASE TimePasses
  BY <1>0, <1>9, LinkUntouched DEF TimePasses
<1>10. CASE ServiceCrashes
  BY <1>0, <1>10, LinkUntouched DEF ServiceCrashes
<1>11. CASE LinkStep
  BY <1>2, <1>4, <1>5, <1>6, <1>7, <1>8, <1>9, <1>11, TokenOpened, TokenIssued DEF LinkStep
<1>12. CASE DeliveryStep
  BY <1>1, <1>10, <1>12
     DEF DeliveryStep, Takes, Take, IsAsked, ReadsProfiles, SendsNext, FinishesMessage,
         ProfilesFail, ServiceStops, Leave, linkVars, linkState
<1>13. QED
  BY <1>1, <1>11, <1>12 DEF NoticesNext, noticeVars, linkVars, linkState

\* Whoever starts and opens links, and whoever else writes the rows meanwhile, a
\* token in a row was put there for its user and not opened since.
THEOREM LinkInvariant == NoticesSpec => []LinkInv
BY LinkInvInit, LinkInvStep, PTL DEF NoticesSpec

\* For each time that a token was put in a row it can be opened once, and it links
\* that row's user, whoever opens it, from however many chats and however often
\* the update is repeated.
THEOREM LinkIsUsedOnce == NoticesSpec => []LinkOpensOnce
<1>1. LinkInv => LinkOpensOnce
  BY DEF LinkInv, OpenedInv, LinkOpensOnce
<1>2. QED
  BY <1>1, LinkInvariant, PTL

\* A link that a page shows as valid is accepted, although the process and the
\* database compute its expiry apart, no other user's row holds its token, and it
\* was made for this user unless it was written to a row again.
THEOREM ShownLinkIsAccepted == NoticesSpec => []ShownLinkWorks
<1>1. ASSUME LinkInv, NEW u \in Users, HasActiveToken(accounts[u])
      PROVE  /\ TokenAccepted(accounts[u], accounts[u].token)
             /\ \A v \in Users \ {u} : accounts[v].token # accounts[u].token
             /\ issued[accounts[u].token].user = u \/ WrittenBack(accounts[u].token)
  <2>1. accounts[u] \in Account /\ second \in Nat /\ TTL \in Nat
    BY <1>1, NotificationsAssumption DEF LinkInv, LinkTypes
  <2>2. accounts[u].at + TTL >= second /\ accounts[u].token # 0
    BY <1>1, <2>1 DEF HasActiveToken, IsTokenExpired, Account
  <2>3. /\ source[u] \in DOMAIN issued
        /\ issued[source[u]] = [token |-> accounts[u].token, user |-> u]
        /\ \A v \in Users \ {u} : accounts[v].token # accounts[u].token
    BY <1>1, <2>2 DEF LinkInv, TokensInv
  <2>4. issued[accounts[u].token].user = u \/ WrittenBack(accounts[u].token)
    BY <2>3 DEF WrittenBack
  <2>5. QED
    BY <2>2, <2>3, <2>4 DEF TokenAccepted
<1>2. LinkInv => ShownLinkWorks
  BY <1>1 DEF ShownLinkWorks
<1>3. QED
  BY <1>2, LinkInvariant, PTL

-----------------------------------------------------------------------------
(* The inductive invariant of delivery *)

\* Everything that can be sent of a message, and the reading of the profiles.
Sends == [user : Users \cup {"all"},
          channel : {"telegram", "email", "urls", "default", "profiles"}]

Queued == Range(waiting) \cup asked
Holds(w, m) == job[w].message = m

\* A message waits once, to be consumed or to be asked for.
QueueInv ==
    /\ waiting \in Seq(Messages) /\ IsInjective(waiting)
    /\ asked \subseteq Messages \ Range(waiting)

\* The consumer's message is still the head of the queue; a request's is its own.
JobInv ==
    /\ job \in [Workers -> [message : Messages \cup {"none"}, todo : Seq(Sends)]]
    /\ \A w \in Workers : /\ Holds(w, "none") => job[w].todo = << >>
                          /\ IsInjective(job[w].todo)
    /\ ~ Holds("consumer", "none") =>
          waiting # << >> /\ Holds("consumer", Head(waiting))
    /\ job["request"].message \notin Queued

\* Reading the profiles is the only thing left to do, if it is.
ReadingInv ==
    \A w \in Workers : Profiles \in Range(job[w].todo) =>
        /\ job[w].todo = <<Profiles>>
        /\ FirstSteps(job[w].message) = <<Profiles>>

\* A message that waits was taken once for each breakdown, at most.
TakenInv ==
    /\ breakdowns \in Nat /\ taken \in [Messages -> Nat]
    /\ \A m \in Messages : taken[m] <= breakdowns + 1
    /\ \A m \in Queued : (\A w \in Workers : ~ Holds(w, m)) => taken[m] <= breakdowns

\* What a worker has still to send was not tried since it took the message.
TriedInv ==
    /\ \A x \in DOMAIN tried :
          /\ x = Attempt(x.message, x.send) /\ x.message \in Messages /\ x.send \in Sends
          /\ tried[x] \in Nat
    /\ \A m \in Messages, s \in Sends : TriesOf(m, s) <= taken[m]
    /\ \A w \in Workers, s \in Sends :
          /\ ~ Holds(w, "none")
          /\ s \in Range(job[w].todo) \/ job[w].todo = <<Profiles>>
          => TriesOf(job[w].message, s) < taken[job[w].message]

\* What a message was found to need is tried, or still to be done.
PlannedInv ==
    /\ \A m \in DOMAIN planned : /\ m \in Messages /\ planned[m] \subseteq Sends
                                 /\ FirstSteps(m) = <<Profiles>>
    /\ \A w \in Workers : job[w].message \in DOMAIN planned =>
          \/ job[w].todo = <<Profiles>>
          \/ \A s \in planned[job[w].message] :
                s \in Range(job[w].todo) \/ TriesOf(job[w].message, s) > 0

\* Nothing is left of a message that was acknowledged or answered.
FateInv ==
    /\ \A m \in DOMAIN fate :
          m \in Messages \ Queued /\ \A w \in Workers : ~ Holds(w, m)
    /\ FinishedWasTried

DeliveryInv ==
    QueueInv /\ JobInv /\ ReadingInv /\ TakenInv /\ TriedInv /\ PlannedInv /\ FateInv

-----------------------------------------------------------------------------
(* What is left to send *)

\* The first of every name of a list, up to each place in it.
Firsts(all) ==
    LET firsts[n \in 0 .. Len(all)] ==
          IF n = 0 THEN << >>
          ELSE IF Contains(firsts[n - 1], all[n]) THEN firsts[n - 1]
          ELSE Append(firsts[n - 1], all[n])
    IN  firsts

FirstsStep(all) == [n \in 0 .. Len(all) |->
    IF n = 0 THEN << >>
    ELSE IF Contains(Firsts(all)[n - 1], all[n]) THEN Firsts(all)[n - 1]
    ELSE Append(Firsts(all)[n - 1], all[n])]

\* The first of every name, so far: the function that the recursion of Recipients
\* describes.
LEMMA FirstsAreDefined ==
    ASSUME NEW S, NEW all \in Seq(S)
    PROVE  Firsts(all) = FirstsStep(all)
<1> DEFINE next(f, x) == IF Contains(f, x) THEN f ELSE Append(f, x)
           step == [p \in (0 + 1 .. Len(all)) \X Seq(S) |-> next(p[2], all[p[1]])]
           Makes(g) == g = [n \in 0 .. Len(all) |->
                             IF n = 0 THEN << >>
                             ELSE IF Contains(g[n - 1], all[n]) THEN g[n - 1]
                             ELSE Append(g[n - 1], all[n])]
<1>1. Len(all) \in Nat /\ 0 \in Nat /\ 0 <= Len(all) /\ << >> \in Seq(S)
  OBVIOUS
<1>2. \A i \in 0 + 1 .. Len(all) : all[i] \in S
  OBVIOUS
<1>3. \A f \in Seq(S), x \in S : next(f, x) \in Seq(S)
  OBVIOUS
<1>4. step \in [(0 + 1 .. Len(all)) \X Seq(S) -> Seq(S)]
  BY <1>2, <1>3
<1>5. PICK g \in [0 .. Len(all) -> Seq(S)] :
        IsLoop(g, 0, Len(all), << >>, step)
  <2> DEFINE k == 0
             n == Len(all)
             X == Seq(S)
             first == << >>
  <2>1. k \in Nat /\ n \in Nat /\ k <= n /\ first \in X /\ step \in [(k + 1 .. n) \X X -> X]
    BY <1>1, <1>4
  <2> HIDE DEF step, k, n, X, first
  <2>2. \E g \in [k .. n -> X] : IsLoop(g, k, n, first, step)
    BY <2>1, LoopIsDefined
  <2>3. QED
    BY <2>2 DEF k, n, X, first
<1>6. \A i \in 0 .. Len(all) : i # 0 => step[<<i, g[i - 1]>>] = next(g[i - 1], all[i])
  BY <1>1
<1>7. Makes(g)
  <2> HIDE DEF step
  <2>1. QED
    BY <1>5, <1>6 DEF IsLoop
<1>8. \E h : Makes(h)
  <2> HIDE DEF Makes
  <2>1. QED
    BY <1>7
<1>9. Firsts(all) = CHOOSE h : Makes(h)
  BY DEF Firsts
<1>10. Makes(Firsts(all))
  <2> HIDE DEF Makes
  <2>1. QED
    BY <1>8, <1>9
<1>11. QED
  BY <1>10 DEF FirstsStep

\* A sequence with one more element, which is new to it.
LEMMA OneMore ==
    ASSUME NEW S, NEW s \in Seq(S), NEW e \in S
    PROVE  /\ Append(s, e) \in Seq(S) /\ Range(Append(s, e)) = Range(s) \cup {e}
           /\ IsInjective(s) /\ e \notin Range(s) => IsInjective(Append(s, e))
<1>1. /\ Append(s, e) \in Seq(S) /\ DOMAIN Append(s, e) = 1 .. Len(s) + 1 /\ Len(s) \in Nat
      /\ DOMAIN s = 1 .. Len(s)
      /\ \A i \in 1 .. Len(s) : Append(s, e)[i] = s[i]
      /\ Append(s, e)[Len(s) + 1] = e
  OBVIOUS
<1>2. Range(Append(s, e)) = Range(s) \cup {e}
  BY <1>1 DEF Range
<1>3. IsInjective(s) /\ e \notin Range(s) => IsInjective(Append(s, e))
  BY <1>1 DEF IsInjective, Range
<1>4. QED
  BY <1>1, <1>2, <1>3

\* dict.fromkeys keeps every name, and each once.
LEMMA FirstsKeepOne ==
    ASSUME NEW S, NEW all \in Seq(S)
    PROVE  /\ Firsts(all)[Len(all)] \in Seq(S)
           /\ IsInjective(Firsts(all)[Len(all)])
           /\ Range(Firsts(all)[Len(all)]) = Range(all)
<1> DEFINE f == Firsts(all)
           T == {n \in 0 .. Len(all) : /\ f[n] \in Seq(S) /\ IsInjective(f[n])
                                       /\ Range(f[n]) = {all[i] : i \in 1 .. n}}
<1>1. /\ Len(all) \in Nat /\ DOMAIN all = 1 .. Len(all)
      /\ \A i \in 1 .. Len(all) : all[i] \in S
  OBVIOUS
<1>2. \A n \in 0 .. Len(all) : f[n] =
          IF n = 0 THEN << >>
          ELSE IF Contains(f[n - 1], all[n]) THEN f[n - 1] ELSE Append(f[n - 1], all[n])
  <2>1. f = FirstsStep(all)
    BY FirstsAreDefined
  <2> HIDE DEF f
  <2>2. QED
    BY <2>1 DEF FirstsStep, f
<1> HIDE DEF f
<1>3. 0 \in T
  <2>1. f[0] = << >>
    BY <1>1, <1>2
  <2>2. << >> \in Seq(S) /\ IsInjective(<< >>) /\ Range(<< >>) = {}
    BY DEF IsInjective, Range
  <2>3. {all[i] : i \in 1 .. 0} = {}
    OBVIOUS
  <2>4. 0 \in 0 .. Len(all)
    BY <1>1
  <2>5. QED
    BY <2>1, <2>2, <2>3, <2>4
<1>4. ASSUME NEW n \in 0 .. Len(all) - 1, n \in T
      PROVE  n + 1 \in T
  <2>1. /\ n + 1 \in 0 .. Len(all) /\ n + 1 \in 1 .. Len(all) /\ n + 1 # 0 /\ (n + 1) - 1 = n
        /\ n \in Nat
    BY <1>1
  <2>2. f[n] \in Seq(S) /\ IsInjective(f[n]) /\ Range(f[n]) = {all[i] : i \in 1 .. n}
    BY <1>4
  <2>3. f[n + 1] = IF Contains(f[n], all[n + 1]) THEN f[n] ELSE Append(f[n], all[n + 1])
    BY <1>2, <2>1
  <2>4. Contains(f[n], all[n + 1]) <=> all[n + 1] \in Range(f[n])
    BY <2>2 DEF Contains, Range
  <2>5. {all[i] : i \in 1 .. n + 1} = {all[i] : i \in 1 .. n} \cup {all[n + 1]}
    <3>1. 1 .. n + 1 = (1 .. n) \cup {n + 1}
      BY <2>1
    <3>2. QED
      BY <3>1
  <2>6. /\ f[n + 1] \in Seq(S) /\ IsInjective(f[n + 1])
        /\ Range(f[n + 1]) = Range(f[n]) \cup {all[n + 1]}
    <3>1. all[n + 1] \in S
      BY <1>1, <2>1
    <3>2. CASE Contains(f[n], all[n + 1])
      BY <2>2, <2>3, <2>4, <3>2
    <3>3. CASE ~ Contains(f[n], all[n + 1])
      BY <2>2, <2>3, <2>4, <3>1, <3>3, OneMore
    <3>4. QED
      BY <3>2, <3>3
  <2>7. QED
    BY <2>1, <2>2, <2>5, <2>6
<1>5. Len(all) \in T
  <2> HIDE DEF T
  <2>1. 0 .. Len(all) \subseteq T
    BY <1>1, <1>3, <1>4, UpTo
  <2>2. QED
    BY <1>1, <2>1
<1>6. Range(all) = {all[i] : i \in 1 .. Len(all)}
  BY <1>1 DEF Range
<1>7. QED
  BY <1>5, <1>6 DEF f

\* The recipients are those that were named, each once.
LEMMA RecipientsAre ==
    ASSUME NEW m \in Messages
    PROVE  /\ Recipients(m) \in Seq(Users) /\ IsInjective(Recipients(m))
           /\ Range(Recipients(m)) = Range(Envelope[m].recipients)
<1>1. Envelope[m].recipients \in Seq(Users)
  BY NotificationsAssumption
<1>2. Recipients(m) = Firsts(Envelope[m].recipients)[Len(Envelope[m].recipients)]
  BY DEF Recipients, Firsts
<1>3. QED
  BY <1>1, <1>2, FirstsKeepOne

\* The sequences up to each of them.
Flat(seqs) ==
    LET flatten[i \in 1 .. Len(seqs)] ==
          IF i = 1 THEN seqs[i] ELSE flatten[i - 1] \o seqs[i]
    IN  flatten

\* Sequences one after another: the function that FlattenSeq describes.
LEMMA FlatIsDefined ==
    ASSUME NEW S, NEW seqs \in Seq(Seq(S)), Len(seqs) # 0
    PROVE  Flat(seqs) = [i \in 1 .. Len(seqs) |->
                            IF i = 1 THEN seqs[i] ELSE Flat(seqs)[i - 1] \o seqs[i]]
<1> DEFINE step == [p \in (1 + 1 .. Len(seqs)) \X Seq(S) |-> p[2] \o seqs[p[1]]]
           Makes(g) == g = [i \in 1 .. Len(seqs) |->
                             IF i = 1 THEN seqs[i] ELSE g[i - 1] \o seqs[i]]
<1>1. /\ Len(seqs) \in Nat /\ 1 \in Nat /\ 1 <= Len(seqs) /\ seqs[1] \in Seq(S)
      /\ \A i \in 1 .. Len(seqs) : seqs[i] \in Seq(S)
  OBVIOUS
<1>2. step \in [(1 + 1 .. Len(seqs)) \X Seq(S) -> Seq(S)]
  <2>1. \A p \in (1 + 1 .. Len(seqs)) \X Seq(S) : p[2] \o seqs[p[1]] \in Seq(S)
    <3> TAKE p \in (1 + 1 .. Len(seqs)) \X Seq(S)
    <3>1. p[2] \in Seq(S) /\ seqs[p[1]] \in Seq(S)
      BY <1>1
    <3>2. QED
      BY <3>1
  <2>2. QED
    BY <2>1
<1>3. PICK g \in [1 .. Len(seqs) -> Seq(S)] : IsLoop(g, 1, Len(seqs), seqs[1], step)
  <2> DEFINE k == 1
             n == Len(seqs)
             X == Seq(S)
             first == seqs[1]
  <2>1. k \in Nat /\ n \in Nat /\ k <= n /\ first \in X /\ step \in [(k + 1 .. n) \X X -> X]
    BY <1>1, <1>2
  <2> HIDE DEF step, k, n, X, first
  <2>2. \E g \in [k .. n -> X] : IsLoop(g, k, n, first, step)
    BY <2>1, LoopIsDefined
  <2>3. QED
    BY <2>2 DEF k, n, X, first
<1>4. \A i \in 1 .. Len(seqs) : i # 1 => step[<<i, g[i - 1]>>] = g[i - 1] \o seqs[i]
  <2> SUFFICES ASSUME NEW i \in 1 .. Len(seqs), i # 1
               PROVE  step[<<i, g[i - 1]>>] = g[i - 1] \o seqs[i]
    OBVIOUS
  <2>1. i \in 1 + 1 .. Len(seqs) /\ i - 1 \in 1 .. Len(seqs)
    BY <1>1
  <2>2. <<i, g[i - 1]>> \in (1 + 1 .. Len(seqs)) \X Seq(S)
    BY <2>1
  <2>3. QED
    BY <2>2
<1>5. Makes(g)
  <2> HIDE DEF step
  <2>1. \A i \in 1 .. Len(seqs) : g[i] = IF i = 1 THEN seqs[i] ELSE g[i - 1] \o seqs[i]
    <3>1. \A i \in 1 .. Len(seqs) : g[i] = IF i = 1 THEN seqs[1] ELSE step[<<i, g[i - 1]>>]
      BY <1>3 DEF IsLoop
    <3>2. QED
      BY <3>1, <1>4
  <2>2. QED
    BY <2>1
<1>6. \E h : Makes(h)
  <2> HIDE DEF Makes
  <2>1. QED
    BY <1>5
<1>7. Flat(seqs) = CHOOSE h : Makes(h)
  BY DEF Flat
<1>8. Makes(Flat(seqs))
  <2> HIDE DEF Makes
  <2>1. QED
    BY <1>6, <1>7
<1>9. QED
  BY <1>8

\* Two sequences that share nothing, one after the other.
LEMMA Joined ==
    ASSUME NEW S, NEW s \in Seq(S), NEW t \in Seq(S), IsInjective(s), IsInjective(t),
           Range(s) \cap Range(t) = {}
    PROVE  /\ s \o t \in Seq(S) /\ IsInjective(s \o t)
           /\ Range(s \o t) = Range(s) \cup Range(t)
<1>1. /\ s \o t \in Seq(S) /\ Len(s \o t) = Len(s) + Len(t)
      /\ Len(s) \in Nat /\ Len(t) \in Nat /\ DOMAIN s = 1 .. Len(s) /\ DOMAIN t = 1 .. Len(t)
      /\ DOMAIN (s \o t) = 1 .. Len(s) + Len(t)
      /\ \A i \in 1 .. Len(s) + Len(t) :
            (s \o t)[i] = IF i <= Len(s) THEN s[i] ELSE t[i - Len(s)]
  BY ConcatProperties
<1> DEFINE u == s \o t
<1> HIDE DEF u
<1>2. /\ DOMAIN u = 1 .. Len(s) + Len(t)
      /\ \A i \in 1 .. Len(s) : u[i] = s[i]
      /\ \A i \in 1 .. Len(t) : Len(s) + i \in DOMAIN u /\ u[Len(s) + i] = t[i]
      /\ \A i \in DOMAIN u : i \in 1 .. Len(s) \/ i - Len(s) \in 1 .. Len(t)
      /\ \A i \in DOMAIN u : i \notin 1 .. Len(s) => u[i] = t[i - Len(s)]
  BY <1>1 DEF u
<1>3. Range(u) = Range(s) \cup Range(t)
  BY RangeConcatenation DEF u
<1>4. IsInjective(u)
  <2> SUFFICES ASSUME NEW i \in DOMAIN u, NEW j \in DOMAIN u, u[i] = u[j] PROVE i = j
    BY DEF IsInjective
  <2>1. CASE i \in 1 .. Len(s) /\ j \in 1 .. Len(s)
    <3>1. i \in DOMAIN s /\ j \in DOMAIN s /\ s[i] = s[j]
      BY <1>1, <1>2, <2>1
    <3>2. QED
      BY <3>1 DEF IsInjective
  <2>2. CASE i \notin 1 .. Len(s) /\ j \notin 1 .. Len(s)
    <3>1. /\ i - Len(s) \in DOMAIN t /\ j - Len(s) \in DOMAIN t
          /\ t[i - Len(s)] = t[j - Len(s)]
      BY <1>1, <1>2, <2>2
    <3>2. i - Len(s) = j - Len(s)
      BY <3>1 DEF IsInjective
    <3>3. i \in Int /\ j \in Int
      BY <1>1, <1>2
    <3>4. QED
      BY <1>1, <3>2, <3>3
  <2>3. CASE i \in 1 .. Len(s) /\ j \notin 1 .. Len(s)
    <3>1. /\ i \in DOMAIN s /\ j - Len(s) \in DOMAIN t
          /\ s[i] = t[j - Len(s)]
      BY <1>1, <1>2, <2>3
    <3>2. s[i] \in Range(s) /\ t[j - Len(s)] \in Range(t)
      BY <3>1 DEF Range
    <3>3. QED
      BY <3>1, <3>2
  <2>4. CASE i \notin 1 .. Len(s) /\ j \in 1 .. Len(s)
    <3>1. /\ j \in DOMAIN s /\ i - Len(s) \in DOMAIN t
          /\ s[j] = t[i - Len(s)]
      BY <1>1, <1>2, <2>4
    <3>2. s[j] \in Range(s) /\ t[i - Len(s)] \in Range(t)
      BY <3>1 DEF Range
    <3>3. QED
      BY <3>1, <3>2
  <2>5. QED
    BY <2>1, <2>2, <2>3, <2>4
<1>5. QED
  BY <1>1, <1>3, <1>4 DEF u

\* So many sequences, no two of which share anything.
LEMMA Flattened ==
    ASSUME NEW S, NEW seqs \in Seq(Seq(S)),
           \A i \in 1 .. Len(seqs) : IsInjective(seqs[i]),
           \A i, j \in 1 .. Len(seqs) : i # j => Range(seqs[i]) \cap Range(seqs[j]) = {}
    PROVE  /\ FlattenSeq(seqs) \in Seq(S) /\ IsInjective(FlattenSeq(seqs))
           /\ Range(FlattenSeq(seqs)) = UNION {Range(seqs[i]) : i \in 1 .. Len(seqs)}
<1>1. /\ Len(seqs) \in Nat /\ DOMAIN seqs = 1 .. Len(seqs)
      /\ \A i \in 1 .. Len(seqs) : seqs[i] \in Seq(S)
  OBVIOUS
<1>2. CASE Len(seqs) = 0
  <2>1. FlattenSeq(seqs) = << >> /\ 1 .. Len(seqs) = {}
    BY <1>2 DEF FlattenSeq
  <2>2. << >> \in Seq(S) /\ IsInjective(<< >>) /\ Range(<< >>) = {}
    BY DEF IsInjective, Range
  <2>3. QED
    BY <2>1, <2>2
<1>3. CASE Len(seqs) # 0
  <2> DEFINE f == Flat(seqs)
             Upto(n) == UNION {Range(seqs[i]) : i \in 1 .. n}
             T == {n \in 0 .. Len(seqs) - 1 :
                     /\ f[n + 1] \in Seq(S) /\ IsInjective(f[n + 1])
                     /\ Range(f[n + 1]) = Upto(n + 1)}
  <2>1. \A n \in 1 .. Len(seqs) : f[n] = IF n = 1 THEN seqs[n] ELSE f[n - 1] \o seqs[n]
    <3>1. f = [i \in 1 .. Len(seqs) |-> IF i = 1 THEN seqs[i] ELSE f[i - 1] \o seqs[i]]
      BY <1>3, FlatIsDefined
    <3> HIDE DEF f
    <3>2. QED
      BY <3>1
  <2> HIDE DEF f
  <2>2. 0 \in T
    <3>1. 1 .. 0 + 1 = {1} /\ 0 + 1 = 1 /\ 1 \in 1 .. Len(seqs)
      BY <1>1, <1>3
    <3>2. f[0 + 1] = seqs[1]
      BY <2>1, <3>1
    <3>3. Upto(0 + 1) = Range(seqs[1])
      BY <3>1
    <3>4. 0 \in 0 .. Len(seqs) - 1
      BY <1>1, <1>3
    <3> HIDE DEF Upto
    <3>5. QED
      BY <1>1, <3>1, <3>2, <3>3, <3>4
  <2>3. ASSUME NEW n \in 0 .. (Len(seqs) - 1) - 1, n \in T
        PROVE  n + 1 \in T
    <3>1. /\ n + 1 \in 0 .. Len(seqs) - 1 /\ (n + 1) + 1 \in 1 .. Len(seqs) /\ n \in Nat
          /\ (n + 1) + 1 # 1 /\ ((n + 1) + 1) - 1 = n + 1
          /\ \A i \in 1 .. n + 1 : i \in 1 .. Len(seqs) /\ i # (n + 1) + 1
          /\ 1 .. (n + 1) + 1 = (1 .. n + 1) \cup {(n + 1) + 1}
      BY <1>1
    <3> DEFINE next == seqs[(n + 1) + 1]
    <3>2. f[n + 1] \in Seq(S) /\ IsInjective(f[n + 1]) /\ Range(f[n + 1]) = Upto(n + 1)
      BY <2>3
    <3>3. f[(n + 1) + 1] = f[n + 1] \o next
      BY <2>1, <3>1
    <3>4. next \in Seq(S) /\ IsInjective(next)
      BY <1>1, <3>1
    <3>5. Upto(n + 1) \cap Range(next) = {}
      <4>1. \A i \in 1 .. n + 1 : Range(seqs[i]) \cap Range(next) = {}
        BY <3>1
      <4>2. QED
        BY <4>1
    <3>6. Upto((n + 1) + 1) = Upto(n + 1) \cup Range(next)
      BY <3>1
    <3> HIDE DEF Upto, next
    <3>7. /\ f[n + 1] \o next \in Seq(S) /\ IsInjective(f[n + 1] \o next)
          /\ Range(f[n + 1] \o next) = Range(f[n + 1]) \cup Range(next)
      BY <3>2, <3>4, <3>5, Joined
    <3>8. /\ f[(n + 1) + 1] \in Seq(S) /\ IsInjective(f[(n + 1) + 1])
          /\ Range(f[(n + 1) + 1]) = Upto((n + 1) + 1)
      BY <3>2, <3>3, <3>6, <3>7
    <3>9. QED
      BY <3>1, <3>8
  <2>4. Len(seqs) - 1 \in T
    <3>1. Len(seqs) - 1 \in Nat
      BY <1>1, <1>3
    <3> HIDE DEF T
    <3>2. 0 .. Len(seqs) - 1 \subseteq T
      BY <2>2, <2>3, <3>1, UpTo
    <3>3. QED
      BY <3>1, <3>2
  <2>5. (Len(seqs) - 1) + 1 = Len(seqs)
    BY <1>1
  <2>6. FlattenSeq(seqs) = f[Len(seqs)]
    BY <1>3 DEF FlattenSeq, Flat, f
  <2>7. QED
    BY <2>4, <2>5, <2>6
<1>4. QED
  BY <1>2, <1>3

\* A queue without its head has the rest, and the head is not among it.
LEMMA TailOf ==
    ASSUME NEW S, NEW s \in Seq(S), s # << >>, IsInjective(s)
    PROVE  /\ Tail(s) \in Seq(S) /\ IsInjective(Tail(s))
           /\ Range(Tail(s)) = Range(s) \ {Head(s)}
           /\ Head(s) \in Range(s) /\ Head(s) \in S
<1>1. /\ Tail(s) \in Seq(S) /\ Len(s) \in Nat /\ Len(s) # 0 /\ DOMAIN s = 1 .. Len(s)
      /\ Head(s) = s[1] /\ DOMAIN Tail(s) = 1 .. Len(s) - 1
      /\ \A i \in 1 .. Len(s) - 1 : Tail(s)[i] = s[i + 1] /\ i + 1 \in DOMAIN s /\ i + 1 # 1
      /\ \A i \in DOMAIN s : i # 1 => i - 1 \in 1 .. Len(s) - 1 /\ (i - 1) + 1 = i
      /\ 1 \in DOMAIN s
  BY HeadTailProperties
<1>2. IsInjective(Tail(s))
  <2> SUFFICES ASSUME NEW i \in 1 .. Len(s) - 1, NEW j \in 1 .. Len(s) - 1,
                      Tail(s)[i] = Tail(s)[j]
               PROVE  i = j
    BY <1>1 DEF IsInjective
  <2>1. s[i + 1] = s[j + 1] /\ i + 1 \in DOMAIN s /\ j + 1 \in DOMAIN s
    BY <1>1
  <2>2. i + 1 = j + 1
    BY <2>1 DEF IsInjective
  <2>3. QED
    BY <2>2
<1>3. \A i \in DOMAIN s : s[i] = s[1] => i = 1
  BY <1>1 DEF IsInjective
<1>4. Range(Tail(s)) = Range(s) \ {s[1]}
  <2>1. Range(Tail(s)) \subseteq Range(s) \ {s[1]}
    BY <1>1, <1>3 DEF Range
  <2>2. ASSUME NEW i \in DOMAIN s, s[i] # s[1] PROVE s[i] \in Range(Tail(s))
    <3>1. i - 1 \in DOMAIN Tail(s) /\ Tail(s)[i - 1] = s[i]
      BY <1>1, <2>2
    <3>2. QED
      BY <3>1 DEF Range
  <2>3. QED
    BY <2>1, <2>2 DEF Range
<1>5. QED
  BY <1>1, <1>2, <1>4 DEF Range

\* A sequence of one.
LEMMA OnlyOne ==
    ASSUME NEW S, NEW x \in S
    PROVE  <<x>> \in Seq(S) /\ IsInjective(<<x>>) /\ Range(<<x>>) = {x}
<1>1. /\ <<x>> \in Seq(S) /\ DOMAIN <<x>> = {1} /\ <<x>>[1] = x
  OBVIOUS
<1>2. IsInjective(<<x>>) /\ Range(<<x>>) = {x}
  BY <1>1 DEF IsInjective, Range
<1>3. QED
  BY <1>1, <1>2

\* The sequence of none.
LEMMA Nothing ==
    ASSUME NEW S
    PROVE  << >> \in Seq(S) /\ IsInjective(<< >>) /\ Range(<< >>) = {}
BY DEF IsInjective, Range

\* The channels of a user are the user's, each once.
LEMMA ChannelsAre ==
    ASSUME NEW u \in Users
    PROVE  /\ Channels(u) \in Seq(Sends) /\ IsInjective(Channels(u))
           /\ \A s \in Range(Channels(u)) : s.user = u /\ s # Profiles
<1> DEFINE telegram == IF accounts[u].enabled /\ accounts[u].chat # NoChat
                       THEN <<Send(u, "telegram")>> ELSE << >>
           email == IF u \in Mailed /\ accounts[u].mail THEN <<Send(u, "email")>> ELSE << >>
           tg == Send(u, "telegram")
           em == Send(u, "email")
<1>1. /\ tg \in Sends /\ em \in Sends /\ tg # em /\ tg.user = u /\ em.user = u
      /\ tg # Profiles /\ em # Profiles
  <2>1. tg.channel = "telegram" /\ em.channel = "email" /\ Profiles.channel = "profiles"
    BY DEF Send, Profiles
  <2>2. QED
    BY <2>1 DEF Send, Sends
<1>2. telegram \in Seq(Sends) /\ IsInjective(telegram) /\ Range(telegram) \subseteq {tg}
  BY <1>1, OnlyOne, Nothing
<1>3. email \in Seq(Sends) /\ IsInjective(email) /\ Range(email) \subseteq {em}
  BY <1>1, OnlyOne, Nothing
<1>4. Channels(u) = telegram \o email
  BY DEF Channels
<1> HIDE DEF telegram, email, tg, em
<1>5. /\ telegram \o email \in Seq(Sends) /\ IsInjective(telegram \o email)
      /\ Range(telegram \o email) = Range(telegram) \cup Range(email)
  <2>1. Range(telegram) \cap Range(email) = {}
    BY <1>1, <1>2, <1>3
  <2>2. QED
    BY <1>2, <1>3, <2>1, Joined
<1>6. QED
  BY <1>1, <1>2, <1>3, <1>4, <1>5

\* What reading the profiles leaves to be sent of a message, and what it needs.
ToSend(m) == FlattenSeq([i \in DOMAIN Recipients(m) |-> Channels(Recipients(m)[i])])
Needs(m) == UNION {Range(Channels(u)) : u \in Range(Envelope[m].recipients)}

\* Once the profiles are read, every channel of every recipient is to be tried,
\* and once.
LEMMA ToSendIsNeeded ==
    ASSUME NEW m \in Messages
    PROVE  /\ ToSend(m) \in Seq(Sends) /\ IsInjective(ToSend(m))
           /\ Range(ToSend(m)) = Needs(m) /\ Profiles \notin Range(ToSend(m))
           /\ Needs(m) \subseteq Sends
<1> DEFINE to == Recipients(m)
           seqs == [i \in DOMAIN to |-> Channels(to[i])]
<1>1. /\ to \in Seq(Users) /\ IsInjective(to) /\ Range(to) = Range(Envelope[m].recipients)
  BY RecipientsAre
<1> HIDE DEF to
<1>2. /\ DOMAIN to = 1 .. Len(to) /\ Len(to) \in Nat
      /\ \A i \in 1 .. Len(to) : to[i] \in Users
  BY <1>1
<1>3. /\ seqs \in Seq(Seq(Sends)) /\ Len(seqs) = Len(to)
      /\ \A i \in 1 .. Len(to) : seqs[i] = Channels(to[i])
  <2>1. \A i \in 1 .. Len(to) : Channels(to[i]) \in Seq(Sends)
    BY <1>2, ChannelsAre
  <2>2. QED
    BY <1>2, <2>1
<1> HIDE DEF seqs
<1>4. \A i \in 1 .. Len(seqs) : IsInjective(seqs[i])
  BY <1>2, <1>3, ChannelsAre
<1>5. \A i, j \in 1 .. Len(seqs) : i # j => Range(seqs[i]) \cap Range(seqs[j]) = {}
  <2> SUFFICES ASSUME NEW i \in 1 .. Len(to), NEW j \in 1 .. Len(to), i # j,
                      NEW s \in Range(seqs[i]), s \in Range(seqs[j])
               PROVE  FALSE
    BY <1>3
  <2>1. s.user = to[i] /\ s.user = to[j]
    BY <1>2, <1>3, ChannelsAre
  <2>2. QED
    BY <1>1, <1>2, <2>1 DEF IsInjective
<1>6. /\ FlattenSeq(seqs) \in Seq(Sends) /\ IsInjective(FlattenSeq(seqs))
      /\ Range(FlattenSeq(seqs)) = UNION {Range(seqs[i]) : i \in 1 .. Len(seqs)}
  BY <1>3, <1>4, <1>5, Flattened
<1>7. ToSend(m) = FlattenSeq(seqs)
  BY DEF ToSend, seqs, to
<1>8. Needs(m) = UNION {Range(seqs[i]) : i \in 1 .. Len(seqs)}
  <2>1. Range(to) = {to[i] : i \in 1 .. Len(to)}
    BY <1>2 DEF Range
  <2>2. Needs(m) = UNION {Range(Channels(u)) : u \in Range(to)}
    BY <1>1 DEF Needs
  <2>3. QED
    BY <1>3, <2>1, <2>2
<1>9. Profiles \notin Range(ToSend(m))
  <2>1. \A i \in 1 .. Len(seqs) : Profiles \notin Range(seqs[i])
    BY <1>2, <1>3, ChannelsAre
  <2>2. QED
    BY <1>6, <1>7, <2>1
<1>10. Needs(m) \subseteq Sends
  <2>1. Range(ToSend(m)) \subseteq Sends
    BY <1>6, <1>7, RangeOfSeq
  <2>2. QED
    BY <1>6, <1>7, <1>8, <2>1
<1>11. QED
  BY <1>6, <1>7, <1>8, <1>9, <1>10

\* A message starts with one send, with the profiles, or with nothing.
LEMMA FirstStepsAre ==
    ASSUME NEW m \in Messages
    PROVE  /\ FirstSteps(m) \in Seq(Sends) /\ IsInjective(FirstSteps(m))
           /\ Profiles \in Range(FirstSteps(m)) => FirstSteps(m) = <<Profiles>>
<1> DEFINE urls == Send("all", "urls")
           default == Send("all", "default")
<1>1. /\ urls \in Sends /\ default \in Sends /\ Profiles \in Sends
      /\ urls # Profiles /\ default # Profiles
  <2>1. urls.channel = "urls" /\ default.channel = "default" /\ Profiles.channel = "profiles"
    BY DEF Send, Profiles
  <2>2. QED
    BY <2>1 DEF Send, Sends, Profiles
<1>2. FirstSteps(m) \in {<< >>, <<urls>>, <<Profiles>>, <<default>>}
  BY DEF FirstSteps
<1> HIDE DEF urls, default
<1>3. CASE FirstSteps(m) = << >>
  BY <1>3, Nothing
<1>4. CASE FirstSteps(m) = <<urls>>
  BY <1>1, <1>4, OnlyOne
<1>5. CASE FirstSteps(m) = <<Profiles>>
  BY <1>1, <1>5, OnlyOne
<1>6. CASE FirstSteps(m) = <<default>>
  BY <1>1, <1>6, OnlyOne
<1>7. QED
  BY <1>2, <1>3, <1>4, <1>5, <1>6

-----------------------------------------------------------------------------
(* Delivery keeps its invariant *)

\* The invariant holds before anything is delivered.
LEMMA DeliveryInvInit ==
    ASSUME NoticesInit
    PROVE  DeliveryInv
<1>1. /\ budget.queue \in Seq(Messages) /\ IsInjective(budget.queue)
      /\ budget.direct \subseteq Messages \ Range(budget.queue)
      /\ "none" \notin Messages
  BY NotificationsAssumption DEF NoticesInit
<1>2. /\ waiting = budget.queue /\ asked = budget.direct /\ breakdowns = 0
      /\ taken = [m \in Messages |-> 0]
      /\ tried = << >> /\ planned = << >> /\ fate = << >>
      /\ job = [w \in Workers |-> Resting]
  BY DEF NoticesInit
<1>3. \A w \in Workers : job[w].message = "none" /\ job[w].todo = << >>
  BY <1>2 DEF Resting
<1>4. QueueInv
  BY <1>1, <1>2 DEF QueueInv
<1>5. Queued \subseteq Messages
  BY <1>4, RangeOfSeq DEF QueueInv, Queued
<1>6. JobInv
  <2>1. Resting \in [message : Messages \cup {"none"}, todo : Seq(Sends)]
    BY DEF Resting
  <2>2. job \in [Workers -> [message : Messages \cup {"none"}, todo : Seq(Sends)]]
    BY <1>2, <2>1
  <2>3. QED
    BY <1>1, <1>3, <1>5, <2>2, Nothing DEF JobInv, Holds, Workers
<1>7. ReadingInv
  BY <1>3, Nothing DEF ReadingInv
<1>8. TakenInv
  BY <1>2, <1>5 DEF TakenInv
<1>9. \A x : x \notin DOMAIN << >>
  OBVIOUS
<1>10. TriedInv
  <2>1. \A m, s : TriesOf(m, s) = 0
    BY <1>2, <1>9 DEF TriesOf
  <2>2. QED
    BY <1>2, <1>3, <1>9, <2>1 DEF TriedInv, Holds
<1>11. PlannedInv
  BY <1>2, <1>9 DEF PlannedInv
<1>12. FateInv
  BY <1>2, <1>9 DEF FateInv, FinishedWasTried
<1>13. QED
  BY <1>4, <1>6, <1>7, <1>8, <1>10, <1>11, <1>12 DEF DeliveryInv

\* Two workers never send the same message: the consumer's is in the queue still.
LEMMA HeldApart ==
    ASSUME QueueInv, JobInv, NEW w \in Workers, ~ Holds(w, "none")
    PROVE  /\ job[w].message \in Messages
           /\ \A v \in Workers \ {w} : ~ Holds(v, job[w].message)
           /\ w = "consumer" =>
                 /\ waiting # << >> /\ job[w].message = Head(waiting)
                 /\ job[w].message \in Range(waiting)
           /\ w = "request" => job[w].message \notin Queued
<1>1. job[w] \in [message : Messages \cup {"none"}, todo : Seq(Sends)]
  BY DEF JobInv
<1>2. job[w].message \in Messages
  BY <1>1 DEF Holds
<1>3. ~ Holds("consumer", "none") => waiting # << >> /\ job["consumer"].message = Head(waiting)
  BY DEF JobInv, Holds
<1>4. waiting # << >> => Head(waiting) \in Range(waiting)
  BY TailOf DEF QueueInv
<1>5. job["request"].message \notin Queued
  BY DEF JobInv
<1>6. ~ Holds("consumer", "none") => job["consumer"].message \in Queued
  BY <1>3, <1>4 DEF Queued
<1>7. \A v \in Workers \ {w} : ~ Holds(v, job[w].message)
  BY <1>2, <1>5, <1>6, NotificationsAssumption DEF Holds, Workers
<1>8. QED
  BY <1>2, <1>3, <1>4, <1>5, <1>7

\* Nobody holds a message that waits to be taken by a worker that rests.
LEMMA NobodyHolds ==
    ASSUME QueueInv, JobInv, NEW w \in Workers, job[w] = Resting, NEW m \in Messages,
           \/ w = "consumer" /\ waiting # << >> /\ m = Head(waiting)
           \/ w = "request" /\ m \in asked
    PROVE  m \in Queued /\ \A v \in Workers : ~ Holds(v, m)
<1>1. waiting # << >> => Head(waiting) \in Range(waiting)
  BY TailOf DEF QueueInv
<1>2. m \in Queued
  BY <1>1 DEF Queued
<1>3. "none" \notin Messages
  BY NotificationsAssumption
<1>4. ~ Holds(w, m)
  BY <1>3 DEF Holds, Resting
<1>5. ~ Holds("request", m)
  BY <1>2 DEF JobInv, Holds
<1>6. w = "request" => ~ Holds("consumer", m)
  <2>1. w = "request" => m \notin Range(waiting)
    BY DEF QueueInv
  <2>2. Holds("consumer", m) => Head(waiting) = m /\ waiting # << >>
    BY <1>3 DEF JobInv, Holds
  <2>3. QED
    BY <1>1, <2>1, <2>2
<1>7. QED
  BY <1>2, <1>4, <1>5, <1>6 DEF Workers

\* How often something was tried is a number.
LEMMA TriesAreCounted ==
    ASSUME TriedInv, NEW m \in Messages, NEW s \in Sends
    PROVE  TriesOf(m, s) \in Nat
  BY DEF TriedInv, TriesOf

\* A step that concerns no delivery keeps the invariant.
LEMMA NothingDelivered ==
    ASSUME DeliveryInv, UNCHANGED <<deliveryVars, breakdowns>>
    PROVE  DeliveryInv'
<1>1. UNCHANGED <<waiting, asked, job, planned, tried, taken, fate, breakdowns>>
  BY DEF deliveryVars
<1>2. Queued' = Queued
  BY <1>1 DEF Queued
<1>3. \A w, m : Holds(w, m)' = Holds(w, m)
  BY <1>1 DEF Holds
<1>4. \A m, s : TriesOf(m, s)' = TriesOf(m, s)
  BY <1>1 DEF TriesOf
<1>5. QueueInv' /\ JobInv' /\ ReadingInv'
  BY <1>1, <1>2, <1>3 DEF DeliveryInv, QueueInv, JobInv, ReadingInv
<1>6. TakenInv'
  BY <1>1, <1>2, <1>3 DEF DeliveryInv, TakenInv
<1>7. TriedInv'
  BY <1>1, <1>3, <1>4 DEF DeliveryInv, TriedInv
<1>8. PlannedInv'
  BY <1>1, <1>4 DEF DeliveryInv, PlannedInv
<1>9. FateInv'
  BY <1>1, <1>2, <1>3, <1>4 DEF DeliveryInv, FateInv, FinishedWasTried
<1>10. QED
  BY <1>5, <1>6, <1>7, <1>8, <1>9 DEF DeliveryInv

\* A worker that rested takes a message: it was nobody's, and waits no more if
\* it was asked for.
LEMMA TakeKeeps ==
    ASSUME DeliveryInv, NEW w \in Workers, NEW m \in Messages,
           job[w] = Resting, Take(w, m),
           \/ /\ w = "consumer" /\ waiting # << >> /\ m = Head(waiting)
              /\ asked' = asked
           \/ w = "request" /\ m \in asked /\ asked' = asked \ {m},
           waiting' = waiting
    PROVE  DeliveryInv'
<1>1. QueueInv /\ JobInv /\ ReadingInv /\ TakenInv /\ TriedInv /\ PlannedInv /\ FateInv
  BY DEF DeliveryInv
<1>2. m \in Queued /\ \A v \in Workers : ~ Holds(v, m)
  BY <1>1, NobodyHolds
<1>3. /\ job' = [job EXCEPT ![w] = [message |-> m, todo |-> FirstSteps(m)]]
      /\ taken' = [taken EXCEPT ![m] = taken[m] + 1]
      /\ UNCHANGED <<planned, tried, fate, breakdowns>>
  BY DEF Take
<1>4. /\ FirstSteps(m) \in Seq(Sends) /\ IsInjective(FirstSteps(m))
      /\ Profiles \in Range(FirstSteps(m)) => FirstSteps(m) = <<Profiles>>
  BY FirstStepsAre
<1>5. /\ job \in [Workers -> [message : Messages \cup {"none"}, todo : Seq(Sends)]]
      /\ taken \in [Messages -> Nat]
  BY <1>1 DEF JobInv, TakenInv
<1>6. /\ job' \in [Workers -> [message : Messages \cup {"none"}, todo : Seq(Sends)]]
      /\ job'[w].message = m /\ job'[w].todo = FirstSteps(m)
      /\ \A v \in Workers \ {w} : job'[v] = job[v]
      /\ taken' \in [Messages -> Nat]
      /\ taken'[m] = taken[m] + 1 /\ \A n \in Messages \ {m} : taken'[n] = taken[n]
  BY <1>3, <1>4, <1>5
<1>7. Queued' \subseteq Queued /\ (w = "request" => m \notin Queued')
  BY <1>1 DEF Queued, QueueInv
<1>8. m # "none" /\ \A v \in Workers \ {w} : job[v].message # m
  BY <1>2, NotificationsAssumption DEF Holds
<1>9. QueueInv'
  BY <1>1 DEF QueueInv
<1>10. JobInv'
  <2>1. \A v \in Workers : /\ Holds(v, "none")' => job'[v].todo = << >>
                           /\ IsInjective(job'[v].todo)
    <3> TAKE v \in Workers
    <3>1. CASE v = w
      BY <1>4, <1>6, <1>8, <3>1 DEF Holds
    <3>2. CASE v # w
      BY <1>1, <1>6, <3>2 DEF JobInv, Holds
    <3>3. QED
      BY <3>1, <3>2
  <2>2. ~ Holds("consumer", "none")' =>
           waiting' # << >> /\ Holds("consumer", Head(waiting))'
    BY <1>1, <1>6, <1>8 DEF JobInv, Holds, Workers
  <2>3. job'["request"].message \notin Queued'
    BY <1>1, <1>6, <1>7 DEF JobInv, Workers
  <2>4. QED
    BY <1>6, <2>1, <2>2, <2>3 DEF JobInv
<1>11. ReadingInv'
  <2>1. Profiles \in Range(FirstSteps(m)) => FirstSteps(m) = <<Profiles>>
    BY <1>4
  <2>2. QED
    BY <1>1, <1>6, <2>1 DEF ReadingInv
<1>12. TakenInv'
  <2>1. taken[m] <= breakdowns /\ breakdowns \in Nat
    BY <1>1, <1>2 DEF TakenInv
  <2>2. \A n \in Messages : taken'[n] <= breakdowns + 1
    BY <1>1, <1>5, <1>6, <2>1 DEF TakenInv
  <2>3. ASSUME NEW n \in Queued', \A v \in Workers : ~ Holds(v, n)'
        PROVE  taken'[n] <= breakdowns
    <3>1. n # m
      BY <1>6, <2>3 DEF Holds
    <3>2. n \in Messages
      BY <1>1, <1>7, <2>3, RangeOfSeq DEF QueueInv, Queued
    <3>3. \A v \in Workers : ~ Holds(v, n)
      BY <1>6, <2>3, <3>2, NotificationsAssumption DEF Holds, Resting
    <3>4. QED
      BY <1>1, <1>6, <1>7, <2>3, <3>1, <3>2, <3>3 DEF TakenInv
  <2>4. QED
    BY <1>3, <1>6, <2>1, <2>2, <2>3 DEF TakenInv
<1>13. \A n, s : TriesOf(n, s)' = TriesOf(n, s)
  BY <1>3 DEF TriesOf
<1>14. TriedInv'
  <2>1. \A n \in Messages, s \in Sends : TriesOf(n, s) \in Nat /\ TriesOf(n, s) <= taken[n]
    BY <1>1, TriesAreCounted DEF TriedInv
  <2>2. ASSUME NEW n \in Messages, NEW s \in Sends PROVE TriesOf(n, s) <= taken'[n]
    <3>1. taken[n] \in Nat /\ (taken'[n] = taken[n] \/ taken'[n] = taken[n] + 1)
      BY <1>5, <1>6
    <3>2. QED
      BY <2>1, <3>1
  <2>3. \A s \in Sends : TriesOf(m, s) < taken'[m]
    BY <1>5, <1>6, <2>1
  <2>4. ASSUME NEW v \in Workers, NEW s \in Sends, ~ Holds(v, "none")',
               s \in Range(job'[v].todo) \/ job'[v].todo = <<Profiles>>
        PROVE  TriesOf(job'[v].message, s) < taken'[job'[v].message]
    <3>1. CASE v = w
      BY <1>6, <2>3, <3>1
    <3>2. CASE v # w
      <4>1. job'[v] = job[v] /\ ~ Holds(v, "none") /\ job[v].message \in Messages \ {m}
        BY <1>5, <1>6, <1>8, <2>4, <3>2 DEF Holds
      <4>2. QED
        BY <1>1, <1>6, <2>4, <4>1 DEF TriedInv
    <3>3. QED
      BY <3>1, <3>2
  <2>5. QED
    BY <1>1, <1>3, <1>13, <2>2, <2>4 DEF TriedInv
<1>15. PlannedInv'
  BY <1>1, <1>3, <1>6, <1>13 DEF PlannedInv
<1>16. FateInv'
  <2>1. \A n \in DOMAIN fate : n \in Messages \ Queued' /\ n # m
    BY <1>1, <1>2, <1>7 DEF FateInv
  <2>2. \A n \in DOMAIN fate, v \in Workers : ~ Holds(v, n)'
    BY <1>1, <1>6, <2>1 DEF FateInv, Holds
  <2>3. FinishedWasTried'
    BY <1>1, <1>3, <1>13 DEF FateInv, FinishedWasTried
  <2>4. QED
    BY <1>3, <2>1, <2>2, <2>3 DEF FateInv
<1>17. QED
  BY <1>9, <1>10, <1>11, <1>12, <1>14, <1>15, <1>16 DEF DeliveryInv

\* A worker is done with its message, and nothing is left of it.
LEMMA LeaveKeeps ==
    ASSUME DeliveryInv, NEW w \in Workers, NEW what, ~ Holds(w, "none"), Leave(w, what),
           breakdowns' \in {breakdowns, breakdowns + 1},
           what = "finished" => job[w].todo = << >>
    PROVE  DeliveryInv'
<1> DEFINE m == job[w].message
<1>1. QueueInv /\ JobInv /\ ReadingInv /\ TakenInv /\ TriedInv /\ PlannedInv /\ FateInv
  BY DEF DeliveryInv
<1>2. /\ m \in Messages
      /\ \A v \in Workers \ {w} : ~ Holds(v, m)
      /\ w = "consumer" => waiting # << >> /\ m = Head(waiting) /\ m \in Range(waiting)
      /\ w = "request" => m \notin Queued
  BY <1>1, HeldApart
<1>3. /\ fate' = With(fate, m, what)
      /\ waiting' = IF w = "consumer" THEN Tail(waiting) ELSE waiting
      /\ job' = [job EXCEPT ![w] = Resting]
      /\ UNCHANGED <<asked, planned, tried, taken>>
  BY DEF Leave
<1> HIDE DEF m
<1>4. job \in [Workers -> [message : Messages \cup {"none"}, todo : Seq(Sends)]]
  BY <1>1 DEF JobInv
<1>5. /\ job' \in [Workers -> [message : Messages \cup {"none"}, todo : Seq(Sends)]]
      /\ job'[w] = Resting /\ job'[w].message = "none" /\ job'[w].todo = << >>
      /\ \A v \in Workers \ {w} : job'[v] = job[v]
  <2>1. Resting \in [message : Messages \cup {"none"}, todo : Seq(Sends)]
    BY DEF Resting
  <2>2. QED
    BY <1>3, <1>4, <2>1 DEF Resting
<1>6. m # "none"
  BY <1>2, NotificationsAssumption
<1>7. QueueInv' /\ Range(waiting') \subseteq Range(waiting)
      /\ (w = "consumer" => m \notin Range(waiting'))
  <2>1. CASE w = "consumer"
    <3>1. /\ Tail(waiting) \in Seq(Messages) /\ IsInjective(Tail(waiting))
          /\ Range(Tail(waiting)) = Range(waiting) \ {m}
      BY <1>1, <1>2, <2>1, TailOf DEF QueueInv
    <3>2. QED
      BY <1>1, <1>3, <2>1, <3>1 DEF QueueInv
  <2>2. CASE w # "consumer"
    BY <1>1, <1>3, <2>2 DEF QueueInv
  <2>3. QED
    BY <2>1, <2>2
<1>8. Queued' \subseteq Queued /\ m \notin Queued'
  <2>1. w = "consumer" => m \notin asked
    BY <1>1, <1>2 DEF QueueInv
  <2>2. QED
    BY <1>2, <1>3, <1>7, <2>1 DEF Queued, Workers
<1>9. \A v \in Workers, n \in Messages : Holds(v, n)' <=> v # w /\ Holds(v, n)
  BY <1>5, NotificationsAssumption DEF Holds
<1>10. JobInv'
  <2>1. \A v \in Workers : /\ Holds(v, "none")' => job'[v].todo = << >>
                           /\ IsInjective(job'[v].todo)
    <3> TAKE v \in Workers
    <3>1. CASE v = w
      BY <1>5, <3>1, Nothing
    <3>2. CASE v # w
      BY <1>1, <1>5, <3>2 DEF JobInv, Holds
    <3>3. QED
      BY <3>1, <3>2
  <2>2. ~ Holds("consumer", "none")' =>
           waiting' # << >> /\ Holds("consumer", Head(waiting))'
    <3>1. CASE w = "consumer"
      BY <1>5, <3>1 DEF Holds
    <3>2. CASE w # "consumer"
      BY <1>1, <1>3, <1>5, <3>2 DEF JobInv, Holds, Workers
    <3>3. QED
      BY <3>1, <3>2
  <2>3. job'["request"].message \notin Queued'
    <3>1. "none" \notin Queued
      BY <1>1, RangeOfSeq, NotificationsAssumption DEF QueueInv, Queued
    <3>2. QED
      BY <1>1, <1>5, <1>8, <3>1 DEF JobInv, Workers
  <2>4. QED
    BY <1>5, <2>1, <2>2, <2>3 DEF JobInv
<1>11. ReadingInv'
  BY <1>1, <1>5, Nothing DEF ReadingInv
<1>12. TakenInv'
  <2>1. breakdowns \in Nat /\ breakdowns' \in Nat /\ breakdowns <= breakdowns'
    BY <1>1 DEF TakenInv
  <2>2. taken \in [Messages -> Nat] /\ taken' = taken
    BY <1>1, <1>3 DEF TakenInv
  <2>3. \A n \in Messages : taken'[n] <= breakdowns' + 1
    BY <1>1, <2>1, <2>2 DEF TakenInv
  <2>4. ASSUME NEW n \in Queued', \A v \in Workers : ~ Holds(v, n)'
        PROVE  taken'[n] <= breakdowns'
    <3>1. n \in Queued /\ n # m
      BY <1>8
    <3>2. n \in Messages
      BY <1>1, <3>1, RangeOfSeq DEF QueueInv, Queued
    <3>3. ~ Holds(w, n)
      BY <3>1 DEF Holds, m
    <3>4. \A v \in Workers : ~ Holds(v, n)
      BY <1>9, <2>4, <3>2, <3>3
    <3>5. taken[n] <= breakdowns
      BY <1>1, <3>1, <3>4 DEF TakenInv
    <3>6. QED
      BY <2>1, <2>2, <3>2, <3>5
  <2>5. QED
    BY <2>1, <2>2, <2>3, <2>4 DEF TakenInv
<1>13. \A n, s : TriesOf(n, s)' = TriesOf(n, s)
  BY <1>3 DEF TriesOf
<1>14. TriedInv'
  BY <1>1, <1>3, <1>5, <1>13 DEF TriedInv, Holds
<1>15. PlannedInv'
  <2>1. "none" \notin DOMAIN planned
    BY <1>1, NotificationsAssumption DEF PlannedInv
  <2>2. QED
    BY <1>1, <1>3, <1>5, <1>13, <2>1 DEF PlannedInv
<1>16. FateInv'
  <2>1. DOMAIN fate' = DOMAIN fate \cup {m} /\ fate'[m] = what
        /\ \A n \in DOMAIN fate \ {m} : fate'[n] = fate[n]
    BY <1>3 DEF With
  <2>2. \A n \in DOMAIN fate' : n \in Messages \ Queued'
    BY <1>1, <1>2, <1>8, <2>1 DEF FateInv
  <2>3. ASSUME NEW n \in DOMAIN fate', NEW v \in Workers PROVE ~ Holds(v, n)'
    <3>1. v # w => ~ Holds(v, n)
      BY <1>1, <1>2, <2>1 DEF FateInv
    <3>2. n # "none"
      BY <1>1, <1>2, <2>1, NotificationsAssumption DEF FateInv
    <3>3. QED
      BY <1>5, <3>1, <3>2 DEF Holds
  <2>4. what = "finished" /\ m \in DOMAIN planned => \A s \in planned[m] : TriesOf(m, s) > 0
    <3> SUFFICES ASSUME what = "finished", m \in DOMAIN planned, NEW s \in planned[m]
                 PROVE  TriesOf(m, s) > 0
      OBVIOUS
    <3>1. job[w].todo = << >>
      OBVIOUS
    <3>2. <<Profiles>> # << >>
      OBVIOUS
    <3>3. s \in Range(job[w].todo) \/ TriesOf(m, s) > 0
      BY <1>1, <3>1, <3>2 DEF PlannedInv, m
    <3>4. QED
      BY <3>1, <3>3, Nothing
  <2>5. FinishedWasTried'
    BY <1>1, <1>3, <1>13, <2>1, <2>4 DEF FateInv, FinishedWasTried
  <2>6. QED
    BY <2>2, <2>3, <2>5 DEF FateInv
<1>17. QED
  BY <1>7, <1>10, <1>11, <1>12, <1>14, <1>15, <1>16 DEF DeliveryInv

\* The profiles are read: what is needed is what is left to send.
LEMMA ReadsKeeps ==
    ASSUME DeliveryInv, NEW w \in Workers, ReadsProfiles(w)
    PROVE  DeliveryInv'
<1> DEFINE m == job[w].message
<1>1. QueueInv /\ JobInv /\ ReadingInv /\ TakenInv /\ TriedInv /\ PlannedInv /\ FateInv
  BY DEF DeliveryInv
<1>2. /\ job[w].todo = <<Profiles>>
      /\ job' = [job EXCEPT ![w].todo = ToSend(m)]
      /\ planned' = With(planned, m, Needs(m))
      /\ UNCHANGED <<waiting, asked, tried, taken, fate, breakdowns>>
  BY DEF ReadsProfiles, ToSend, Needs
<1>3. job \in [Workers -> [message : Messages \cup {"none"}, todo : Seq(Sends)]]
  BY <1>1 DEF JobInv
<1>4. ~ Holds(w, "none")
  <2>1. <<Profiles>> # << >>
    OBVIOUS
  <2>2. QED
    BY <1>1, <1>2, <2>1 DEF JobInv
<1>5. m \in Messages /\ \A v \in Workers \ {w} : ~ Holds(v, m)
  BY <1>1, <1>4, HeldApart
<1>6. FirstSteps(m) = <<Profiles>>
  <2>1. Profiles \in Range(<<Profiles>>)
    BY OnlyOne
  <2>2. QED
    BY <1>1, <1>2, <2>1 DEF ReadingInv
<1>7. /\ ToSend(m) \in Seq(Sends) /\ IsInjective(ToSend(m)) /\ Profiles \notin Range(ToSend(m))
      /\ Range(ToSend(m)) = Needs(m) /\ Needs(m) \subseteq Sends
  BY <1>5, ToSendIsNeeded
<1>8. /\ job' \in [Workers -> [message : Messages \cup {"none"}, todo : Seq(Sends)]]
      /\ job'[w].message = m /\ job'[w].todo = ToSend(m)
      /\ \A v \in Workers \ {w} : job'[v] = job[v]
      /\ \A v \in Workers : job'[v].message = job[v].message
  BY <1>2, <1>3, <1>7
<1>9. DOMAIN planned' = DOMAIN planned \cup {m} /\ planned'[m] = Needs(m)
      /\ \A n \in DOMAIN planned \ {m} : planned'[n] = planned[n]
  BY <1>2 DEF With
<1>10. m # "none" /\ \A v \in Workers \ {w} : job[v].message # m
  BY <1>5, NotificationsAssumption DEF Holds
<1> HIDE DEF m
<1>11. Queued' = Queued
  BY <1>2 DEF Queued
<1>12. \A n : \A v \in Workers : Holds(v, n)' <=> Holds(v, n)
  BY <1>8 DEF Holds
<1>13. \A n, s : TriesOf(n, s)' = TriesOf(n, s)
  BY <1>2 DEF TriesOf
<1>14. QueueInv'
  BY <1>1, <1>2 DEF QueueInv
<1>15. JobInv'
  <2>1. ASSUME NEW v \in Workers
        PROVE  /\ Holds(v, "none")' => job'[v].todo = << >>
               /\ IsInjective(job'[v].todo)
    <3>1. CASE v = w
      BY <1>7, <1>8, <1>10, <3>1 DEF Holds
    <3>2. CASE v # w
      BY <1>1, <1>8, <3>2 DEF JobInv, Holds
    <3>3. QED
      BY <3>1, <3>2
  <2>2. ~ Holds("consumer", "none")' =>
           waiting' # << >> /\ Holds("consumer", Head(waiting))'
    BY <1>1, <1>2, <1>8 DEF JobInv, Holds, Workers
  <2>3. job'["request"].message \notin Queued'
    BY <1>1, <1>8, <1>11 DEF JobInv, Workers
  <2>4. QED
    BY <1>8, <2>1, <2>2, <2>3 DEF JobInv
<1>16. ReadingInv'
  BY <1>1, <1>7, <1>8 DEF ReadingInv
<1>17. TakenInv'
  BY <1>1, <1>2, <1>11, <1>12 DEF TakenInv
<1>18. TriedInv'
  <2>1. ASSUME NEW v \in Workers, NEW s \in Sends, ~ Holds(v, "none")',
               s \in Range(job'[v].todo) \/ job'[v].todo = <<Profiles>>
        PROVE  TriesOf(job'[v].message, s) < taken[job'[v].message]
    <3>1. CASE v = w
      BY <1>1, <1>2, <1>4, <1>8, <3>1 DEF TriedInv, m
    <3>2. CASE v # w
      BY <1>1, <1>8, <1>12, <2>1, <3>2 DEF TriedInv
    <3>3. QED
      BY <3>1, <3>2
  <2>2. QED
    BY <1>1, <1>2, <1>13, <2>1 DEF TriedInv
<1>19. PlannedInv'
  <2>1. \A n \in DOMAIN planned' : /\ n \in Messages /\ planned'[n] \subseteq Sends
                                   /\ FirstSteps(n) = <<Profiles>>
    BY <1>1, <1>5, <1>6, <1>7, <1>9 DEF PlannedInv
  <2>2. ASSUME NEW v \in Workers, job'[v].message \in DOMAIN planned'
        PROVE  \/ job'[v].todo = <<Profiles>>
               \/ \A s \in planned'[job'[v].message] :
                     s \in Range(job'[v].todo) \/ TriesOf(job'[v].message, s) > 0
    <3>1. CASE v = w
      BY <1>7, <1>8, <1>9, <3>1
    <3>2. CASE v # w
      BY <1>1, <1>8, <1>9, <1>10, <2>2, <3>2 DEF PlannedInv
    <3>3. QED
      BY <3>1, <3>2
  <2>3. QED
    BY <1>13, <2>1, <2>2 DEF PlannedInv
<1>20. FateInv'
  <2>1. m \notin DOMAIN fate
    BY <1>1 DEF FateInv, Holds, m
  <2>2. FinishedWasTried'
    BY <1>1, <1>2, <1>9, <1>13, <2>1 DEF FateInv, FinishedWasTried
  <2>3. QED
    BY <1>1, <1>2, <1>11, <1>12, <2>2 DEF FateInv
<1>21. QED
  BY <1>14, <1>15, <1>16, <1>17, <1>18, <1>19, <1>20 DEF DeliveryInv

\* One more call of a notifier: it was not tried since the message was taken.
LEMMA SendsKeeps ==
    ASSUME DeliveryInv, NEW w \in Workers, SendsNext(w)
    PROVE  DeliveryInv'
<1> DEFINE m == job[w].message
           s == Head(job[w].todo)
<1>1. QueueInv /\ JobInv /\ ReadingInv /\ TakenInv /\ TriedInv /\ PlannedInv /\ FateInv
  BY DEF DeliveryInv
<1>2. /\ job[w].todo # << >> /\ s # Profiles
      /\ tried' = With(tried, Attempt(m, s), TriesOf(m, s) + 1)
      /\ job' = [job EXCEPT ![w].todo = Tail(job[w].todo)]
      /\ UNCHANGED <<waiting, asked, planned, taken, fate, breakdowns>>
  BY <1>1 DEF SendsNext, JobInv
<1>3. /\ job \in [Workers -> [message : Messages \cup {"none"}, todo : Seq(Sends)]]
      /\ IsInjective(job[w].todo)
  BY <1>1 DEF JobInv
<1>4. ~ Holds(w, "none")
  BY <1>1, <1>2 DEF JobInv
<1>5. m \in Messages /\ \A v \in Workers \ {w} : ~ Holds(v, m)
  BY <1>1, <1>4, HeldApart
<1>6. /\ Tail(job[w].todo) \in Seq(Sends) /\ IsInjective(Tail(job[w].todo))
      /\ Range(Tail(job[w].todo)) = Range(job[w].todo) \ {s}
      /\ s \in Range(job[w].todo) /\ s \in Sends
  BY <1>2, <1>3, TailOf
<1>7. job[w].todo # <<Profiles>> /\ Profiles \notin Range(job[w].todo)
  <2>1. Head(<<Profiles>>) = Profiles
    OBVIOUS
  <2>2. job[w].todo # <<Profiles>>
    BY <1>2, <2>1
  <2>3. QED
    BY <1>1, <2>2 DEF ReadingInv
<1>8. /\ job' \in [Workers -> [message : Messages \cup {"none"}, todo : Seq(Sends)]]
      /\ job'[w].message = m /\ job'[w].todo = Tail(job[w].todo)
      /\ \A v \in Workers \ {w} : job'[v] = job[v]
      /\ \A v \in Workers : job'[v].message = job[v].message
  BY <1>2, <1>3, <1>6
<1>9. m # "none" /\ \A v \in Workers \ {w} : job[v].message # m
  BY <1>5, NotificationsAssumption DEF Holds
<1>10. TriesOf(m, s) \in Nat /\ TriesOf(m, s) < taken[m] /\ taken[m] \in Nat
  <2>1. taken[m] \in Nat
    BY <1>1, <1>5 DEF TakenInv
  <2>2. QED
    BY <1>1, <1>4, <1>5, <1>6, <2>1, TriesAreCounted DEF TriedInv
<1> HIDE DEF m, s
<1>11. /\ DOMAIN tried' = DOMAIN tried \cup {Attempt(m, s)}
       /\ tried'[Attempt(m, s)] = TriesOf(m, s) + 1
       /\ \A x \in DOMAIN tried \ {Attempt(m, s)} : tried'[x] = tried[x]
  BY <1>2 DEF With
<1>12. \A n, r : TriesOf(n, r)' = IF n = m /\ r = s THEN TriesOf(n, r) + 1 ELSE TriesOf(n, r)
  <2>1. \A n, r : Attempt(n, r) = Attempt(m, s) <=> n = m /\ r = s
    BY DEF Attempt
  <2>2. QED
    BY <1>11, <2>1 DEF TriesOf
<1>13. Queued' = Queued
  BY <1>2 DEF Queued
<1>14. \A n : \A v \in Workers : Holds(v, n)' <=> Holds(v, n)
  BY <1>8 DEF Holds
<1>15. QueueInv' /\ TakenInv'
  BY <1>1, <1>2, <1>13, <1>14 DEF QueueInv, TakenInv
<1>16. JobInv'
  <2>1. ASSUME NEW v \in Workers
        PROVE  /\ Holds(v, "none")' => job'[v].todo = << >>
               /\ IsInjective(job'[v].todo)
    <3>1. CASE v = w
      BY <1>6, <1>8, <1>9, <3>1 DEF Holds
    <3>2. CASE v # w
      BY <1>1, <1>8, <3>2 DEF JobInv, Holds
    <3>3. QED
      BY <3>1, <3>2
  <2>2. ~ Holds("consumer", "none")' =>
           waiting' # << >> /\ Holds("consumer", Head(waiting))'
    BY <1>1, <1>2, <1>8 DEF JobInv, Holds, Workers
  <2>3. job'["request"].message \notin Queued'
    BY <1>1, <1>8, <1>13 DEF JobInv, Workers
  <2>4. QED
    BY <1>8, <2>1, <2>2, <2>3 DEF JobInv
<1>17. ReadingInv'
  BY <1>1, <1>6, <1>7, <1>8 DEF ReadingInv
<1>18. TriedInv'
  <2>1. ASSUME NEW x \in DOMAIN tried'
        PROVE  /\ x = Attempt(x.message, x.send) /\ x.message \in Messages /\ x.send \in Sends
               /\ tried'[x] \in Nat
    <3>1. CASE x = Attempt(m, s)
      BY <1>5, <1>6, <1>10, <1>11, <3>1 DEF Attempt
    <3>2. CASE x # Attempt(m, s)
      BY <1>1, <1>11, <2>1, <3>2 DEF TriedInv
    <3>3. QED
      BY <3>1, <3>2
  <2>2. ASSUME NEW n \in Messages, NEW r \in Sends
        PROVE  TriesOf(n, r)' <= taken[n]
    <3>1. TriesOf(n, r) <= taken[n]
      BY <1>1 DEF TriedInv
    <3>2. CASE n = m /\ r = s
      BY <1>10, <1>12, <3>2
    <3>3. CASE ~ (n = m /\ r = s)
      BY <1>12, <3>1, <3>3
    <3>4. QED
      BY <3>2, <3>3
  <2>3. ASSUME NEW v \in Workers, NEW r \in Sends, ~ Holds(v, "none")',
               r \in Range(job'[v].todo) \/ job'[v].todo = <<Profiles>>
        PROVE  TriesOf(job[v].message, r)' < taken[job[v].message]
    <3>1. CASE v = w
      <4>1. r \in Range(job[w].todo) /\ r # s
        <5>1. Profiles \in Range(<<Profiles>>)
          BY OnlyOne
        <5>2. job'[v].todo = Tail(job[w].todo) /\ job'[v].todo # <<Profiles>>
          BY <1>6, <1>7, <1>8, <3>1, <5>1
        <5>3. QED
          BY <1>6, <2>3, <5>2
      <4>2. TriesOf(m, r) < taken[m]
        BY <1>1, <1>4, <4>1 DEF TriedInv, m
      <4>3. QED
        BY <1>8, <1>12, <3>1, <4>1, <4>2
    <3>2. CASE v # w
      <4>1. TriesOf(job[v].message, r) < taken[job[v].message]
        BY <1>1, <1>8, <1>14, <2>3, <3>2 DEF TriedInv
      <4>2. QED
        BY <1>8, <1>9, <1>12, <3>2, <4>1
    <3>3. QED
      BY <3>1, <3>2
  <2>4. QED
    BY <1>2, <1>8, <2>1, <2>2, <2>3 DEF TriedInv
<1>19. PlannedInv'
  <2>1. ASSUME NEW r \in planned[m], m \in DOMAIN planned
        PROVE  r \in Range(Tail(job[w].todo)) \/ TriesOf(m, r) > 0 \/ r = s
    <3>1. r \in Range(job[w].todo) \/ TriesOf(m, r) > 0
      BY <1>1, <1>7, <2>1 DEF PlannedInv, m
    <3>2. QED
      BY <1>6, <3>1
  <2>2. ASSUME NEW v \in Workers, job[v].message \in DOMAIN planned
        PROVE  \/ job'[v].todo = <<Profiles>>
               \/ \A r \in planned[job[v].message] :
                     r \in Range(job'[v].todo) \/ TriesOf(job[v].message, r)' > 0
    <3>1. \A n \in DOMAIN planned : \A r \in planned[n] :
             TriesOf(n, r) \in Nat /\ (TriesOf(n, r) > 0 => TriesOf(n, r)' > 0)
      <4> TAKE n \in DOMAIN planned
      <4> TAKE r \in planned[n]
      <4>1. TriesOf(n, r) \in Nat
        BY <1>1, TriesAreCounted DEF PlannedInv
      <4>2. QED
        BY <1>12, <4>1
    <3>2. CASE v = w
      <4>1. m \in DOMAIN planned /\ job'[v].todo = Tail(job[w].todo) /\ job'[v].message = m
        BY <1>8, <2>2, <3>2 DEF m
      <4>2. ASSUME NEW r \in planned[m]
            PROVE  r \in Range(Tail(job[w].todo)) \/ TriesOf(job[v].message, r)' > 0
        <5>1. r = s => TriesOf(job[v].message, r)' > 0
          BY <1>10, <1>12, <4>1
        <5>2. TriesOf(m, r) > 0 => TriesOf(job[v].message, r)' > 0
          BY <1>12, <3>1, <4>1
        <5>3. QED
          BY <2>1, <4>1, <5>1, <5>2
      <4>3. job[v].message = m
        BY <3>2 DEF m
      <4>4. QED
        BY <4>1, <4>2, <4>3
    <3>3. CASE v # w
      <4>1. job'[v] = job[v]
        BY <1>8, <3>3
      <4>2. \/ job[v].todo = <<Profiles>>
            \/ \A r \in planned[job[v].message] :
                  r \in Range(job[v].todo) \/ TriesOf(job[v].message, r) > 0
        BY <1>1, <2>2 DEF PlannedInv
      <4>3. \A r \in planned[job[v].message] :
               TriesOf(job[v].message, r) > 0 => TriesOf(job[v].message, r)' > 0
        BY <1>8, <1>12, <2>2, <3>1, <4>1
      <4>4. QED
        BY <4>1, <4>2, <4>3
    <3>4. QED
      BY <3>2, <3>3
  <2>3. planned' = planned /\ \A v \in Workers : job'[v].message = job[v].message
    BY <1>2, <1>8
  <2>4. \A n \in DOMAIN planned : /\ n \in Messages /\ planned[n] \subseteq Sends
                                  /\ FirstSteps(n) = <<Profiles>>
    BY <1>1 DEF PlannedInv
  <2>5. QED
    BY <2>2, <2>3, <2>4 DEF PlannedInv
<1>20. FateInv'
  <2>1. m \notin DOMAIN fate
    BY <1>1 DEF FateInv, Holds, m
  <2>2. FinishedWasTried'
    BY <1>1, <1>2, <1>12, <2>1 DEF FateInv, FinishedWasTried
  <2>3. QED
    BY <1>1, <1>2, <1>13, <1>14, <2>2 DEF FateInv
<1>21. QED
  BY <1>15, <1>16, <1>17, <1>18, <1>19, <1>20 DEF DeliveryInv

\* A crash: nobody holds anything, and what was not acknowledged waits.
LEMMA CrashKeeps ==
    ASSUME DeliveryInv, ServiceCrashes
    PROVE  DeliveryInv'
<1>1. QueueInv /\ JobInv /\ ReadingInv /\ TakenInv /\ TriedInv /\ PlannedInv /\ FateInv
  BY DEF DeliveryInv
<1>2. /\ job' = [w \in Workers |-> Resting] /\ breakdowns' = breakdowns + 1
      /\ UNCHANGED <<waiting, asked, planned, tried, taken, fate>>
  BY DEF ServiceCrashes, Breakdown
<1>3. "none" \notin Messages
  BY NotificationsAssumption
<1>4. \A w \in Workers : job'[w] = Resting /\ job'[w].message = "none" /\ job'[w].todo = << >>
  BY <1>2 DEF Resting
<1>5. Queued' = Queued /\ Queued \subseteq Messages
  BY <1>1, <1>2, RangeOfSeq DEF Queued, QueueInv
<1>6. QueueInv'
  BY <1>1, <1>2 DEF QueueInv
<1>7. JobInv'
  <2>1. Resting \in [message : Messages \cup {"none"}, todo : Seq(Sends)]
    BY DEF Resting
  <2>2. job' \in [Workers -> [message : Messages \cup {"none"}, todo : Seq(Sends)]]
    BY <1>2, <2>1
  <2>3. QED
    BY <1>3, <1>4, <1>5, <2>2, Nothing DEF JobInv, Holds, Workers
<1>8. ReadingInv'
  BY <1>4, Nothing DEF ReadingInv
<1>9. TakenInv'
  BY <1>1, <1>2, <1>5 DEF TakenInv
<1>10. \A n, s : TriesOf(n, s)' = TriesOf(n, s)
  BY <1>2 DEF TriesOf
<1>11. TriedInv'
  BY <1>1, <1>2, <1>4, <1>10 DEF TriedInv, Holds
<1>12. PlannedInv'
  BY <1>1, <1>2, <1>3, <1>4 DEF PlannedInv
<1>13. FateInv'
  BY <1>1, <1>2, <1>3, <1>4, <1>5, <1>10 DEF FateInv, FinishedWasTried, Holds
<1>14. QED
  BY <1>6, <1>7, <1>8, <1>9, <1>11, <1>12, <1>13 DEF DeliveryInv

\* Every step of the delivery keeps the invariant.
LEMMA DeliveryInvStep ==
    ASSUME DeliveryInv, [NoticesNext]_noticeVars
    PROVE  DeliveryInv'
<1>0. QueueInv /\ JobInv /\ breakdowns \in Nat
  BY DEF DeliveryInv, TakenInv
<1>1. CASE Takes
  <2>1. Head(waiting) \in Messages
    BY <1>0, <1>1, TailOf DEF QueueInv, Takes
  <2>2. QED
    BY <1>1, <2>1, TakeKeeps DEF Takes, Workers
<1>2. ASSUME NEW m \in Messages, IsAsked(m) PROVE DeliveryInv'
  BY <1>2, TakeKeeps DEF IsAsked, Workers
<1>3. ASSUME NEW w \in Workers, FinishesMessage(w) PROVE DeliveryInv'
  <2>1. ~ Holds(w, "none")
    <3>1. job[w] \in [message : Messages \cup {"none"}, todo : Seq(Sends)]
      BY <1>0 DEF JobInv
    <3>2. QED
      BY <1>3, <3>1 DEF FinishesMessage, Holds, Resting
  <2>2. QED
    BY <1>3, <2>1, LeaveKeeps DEF FinishesMessage
<1>4. ASSUME NEW w \in Workers, ProfilesFail(w) PROVE DeliveryInv'
  <2>1. <<Profiles>> # << >>
    OBVIOUS
  <2>2. ~ Holds(w, "none")
    BY <1>0, <1>4, <2>1 DEF JobInv, ProfilesFail
  <2>3. breakdowns' = breakdowns + 1 /\ Leave(w, "unread")
    BY <1>4 DEF ProfilesFail, Breakdown
  <2>4. QED
    BY <2>2, <2>3, LeaveKeeps
<1>5. CASE ServiceStops
  <2>1. ~ Holds("consumer", "none")
    <3>1. job["consumer"] \in [message : Messages \cup {"none"}, todo : Seq(Sends)]
      BY <1>0 DEF JobInv, Workers
    <3>2. QED
      BY <1>0, <1>5, <3>1 DEF ServiceStops, Holds, Resting, JobInv, Workers
  <2>2. breakdowns' = breakdowns + 1 /\ Leave("consumer", "dropped") /\ "consumer" \in Workers
    BY <1>5 DEF ServiceStops, Breakdown, Workers
  <2>3. QED
    BY <2>1, <2>2, LeaveKeeps
<1>6. CASE LinkStep
  BY <1>6, NothingDelivered
     DEF LinkStep, StartReads, StartSets, LinksByToken, LinksByCredentials, PhoneChanges,
         DevUpserts, DevDeletesAccount, DevClearsTelegram, BackendWrites, TimePasses
<1>7. CASE UNCHANGED noticeVars
  BY <1>7, NothingDelivered DEF noticeVars
<1>8. QED
  BY <1>1, <1>2, <1>3, <1>4, <1>5, <1>6, <1>7, ReadsKeeps, SendsKeeps, CrashKeeps
     DEF NoticesNext, DeliveryStep

\* The inductive invariant of delivery, for any messages, recipients, channels
\* and breakdowns, and whatever becomes of the accounts meanwhile.
THEOREM DeliveryInvariant == NoticesSpec => []DeliveryInv
BY DeliveryInvInit, DeliveryInvStep, PTL DEF NoticesSpec

\* A recipient hears a message again on a channel only if it was taken again,
\* and it is taken once more at most for each breakdown.
THEOREM RepeatsNeedACrashHolds == NoticesSpec => []RepeatsNeedACrash
<1>1. ASSUME DeliveryInv PROVE RepeatsNeedACrash
  <2>1. TakenInv /\ TriedInv
    BY <1>1 DEF DeliveryInv
  <2>2. ASSUME NEW x \in DOMAIN tried PROVE tried[x] <= taken[x.message]
    BY <2>1, <2>2 DEF TriedInv, TriesOf
  <2>3. \A m \in DOMAIN taken : taken[m] <= 1 + breakdowns
    BY <2>1 DEF TakenInv
  <2>4. QED
    BY <2>2, <2>3 DEF RepeatsNeedACrash
<1>2. QED
  BY <1>1, DeliveryInvariant, PTL

\* What was acknowledged or answered was tried on every channel its recipients
\* had when their profiles were read.
THEOREM FinishedWasTriedHolds == NoticesSpec => []FinishedWasTried
<1>1. DeliveryInv => FinishedWasTried
  BY DEF DeliveryInv, FateInv
<1>2. QED
  BY <1>1, DeliveryInvariant, PTL

-----------------------------------------------------------------------------
(* What an actor of the period events does *)

Rows == [status : Statuses, dates : Calendars]

Keys == {Triggers[i] : i \in 1 .. 10} \cup {SnapshotKey}
            \cup {StatusKey(s, t) : s \in Statuses, t \in Statuses}

\* What an agenda may hold on day d.
Items(d) == {TimeEvents, CheckStatus, SaveStatus}
                \cup {Event(k, t) : k \in Keys, t \in 0 .. d}

OnRow == {"publish", "fan out", "mark"}

Busy(d) ==
    [pc : {"write", "reread", "next"} \cup OnRow, row : Rows, agenda : Seq(Items(d)),
     left : SUBSET Lecturers]

\* The row an actor in this state is busy with.
RowIn(x) == [key |-> Head(x.agenda).key, date |-> Head(x.agenda).date]

\* A state an actor may be in on day d when these rows are reserved.
Good(x, rows, d) ==
    \/ x \in {Idle, Done}
    \/ /\ x \in Busy(d)
       /\ x.pc = "next" => x.agenda # <<>>
       /\ x.pc \in OnRow => /\ x.agenda # <<>>
                            /\ Head(x.agenda).do = "event"
                            /\ RowIn(x) \in rows

EventRows(d) == [key : Keys, date : 0 .. d]

AllNotices == [key : Keys, date : 0 .. LastDay, to : Lecturers \cup {Everyone}]

Types ==
    /\ day \in 0 .. LastDay
    /\ semester \in Rows
    /\ schedule \in BOOLEAN
    /\ seen \in Statuses \cup {Unknown}
    /\ reserved \subseteq EventRows(day)
    /\ published \subseteq reserved
    /\ DOMAIN sent \subseteq AllNotices
    /\ \A n \in DOMAIN sent : sent[n] \in Nat \ {0}
    /\ DOMAIN actors = Actors /\ actors = [a \in Actors |-> actors[a]]
    /\ \A a \in Actors : Good(actors[a], reserved, day)
    /\ failures \in 0 .. MaxFailures

-----------------------------------------------------------------------------
(* Agendas *)

\* A later day and more rows leave an actor's state a good one.
LEMMA GoodGrows ==
    ASSUME NEW x, NEW r, NEW s, r \subseteq s, NEW d \in Nat, NEW e \in Nat, d <= e,
           Good(x, r, d)
    PROVE  Good(x, s, e)
<1>1. Items(d) \subseteq Items(e)
  <2>1. 0 .. d \subseteq 0 .. e
    OBVIOUS
  <2>2. QED
    BY <2>1 DEF Items
<1>2. \A q \in Seq(Items(d)) : q \in Seq(Items(e))
  BY <1>1
<1>3. Busy(d) \subseteq Busy(e)
  BY <1>2 DEF Busy
<1>4. QED
  BY <1>3 DEF Good

\* An actor that is neither idle nor done is at a statement.
LEMMA AtStatement ==
    ASSUME NEW x, NEW r, NEW d, Good(x, r, d), x.pc \notin {"idle", "done"}
    PROVE  /\ x \in Busy(d)
           /\ x = [pc |-> x.pc, row |-> x.row, agenda |-> x.agenda, left |-> x.left]
           /\ x.row \in Rows /\ x.agenda \in Seq(Items(d)) /\ x.left \subseteq Lecturers
           /\ x.pc = "next" => x.agenda # <<>>
           /\ x.pc \in OnRow => /\ x.agenda # <<>>
                                /\ Head(x.agenda).do = "event"
                                /\ RowIn(x) \in r
<1>1. x \notin {Idle, Done}
  BY DEF Idle, Done
<1>2. x \in Busy(d)
  BY <1>1 DEF Good
<1>3. QED
  BY <1>1, <1>2 DEF Good, Busy

\* The head of an agenda is an item, and the rest an agenda.
LEMMA AgendaParts ==
    ASSUME NEW d, NEW q \in Seq(Items(d)), q # <<>>
    PROVE  Head(q) \in Items(d) /\ Tail(q) \in Seq(Items(d))
OBVIOUS

\* An event of an agenda is about a row of today or before.
LEMMA EventIsRow ==
    ASSUME NEW d, NEW i \in Items(d), i.do = "event"
    PROVE  [key |-> i.key, date |-> i.date] \in EventRows(d)
<1>1. i \notin {TimeEvents, CheckStatus, SaveStatus}
  <2>1. TimeEvents.do = "time events" /\ CheckStatus.do = "check status"
        /\ SaveStatus.do = "save status"
    BY DEF TimeEvents, CheckStatus, SaveStatus
  <2>2. QED
    BY <2>1
<1>2. \E k \in Keys, t \in 0 .. d : i = Event(k, t)
  BY <1>1 DEF Items
<1>3. QED
  BY <1>2 DEF Event, EventRows

\* What is due by any dates is an agenda.
LEMMA DueIsAgenda ==
    ASSUME NEW dates, NEW d \in Nat
    PROVE  Due(dates, d) \in Seq(Items(d))
<1> DEFINE S == Seq(Items(d))
<1> DEFINE Snapshots == IF d = dates.change_start THEN <<Event(SnapshotKey, d)>> ELSE <<>>
<1> DEFINE At(i) == IF d = dates[Triggers[i][1]] + Triggers[i][2]
                    THEN <<Event(Triggers[i], d)>> ELSE <<>>
<1>1. \A k \in Keys : Event(k, d) \in Items(d)
  BY DEF Items
<1>2. Snapshots \in S
  BY <1>1 DEF Keys
<1>3. \A i \in 1 .. 10 : At(i) \in S
  <2> SUFFICES ASSUME NEW i \in 1 .. 10 PROVE At(i) \in S
    OBVIOUS
  <2>1. Triggers[i] \in Keys
    BY DEF Keys
  <2> DEFINE t == Triggers[i]
  <2>2. t \in Keys
    BY <2>1
  <2>3. <<Event(t, d)>> \in S
    BY <1>1, <2>2
  <2>4. QED
    BY <2>3
<1> HIDE DEF Snapshots, At
<1>4. \A q, r \in S : q \o r \in S
  OBVIOUS
<1>5. /\ At(1) \in S /\ At(2) \in S /\ At(3) \in S /\ At(4) \in S /\ At(5) \in S
      /\ At(6) \in S /\ At(7) \in S /\ At(8) \in S /\ At(9) \in S /\ At(10) \in S
  BY <1>3
<1> HIDE DEF S
<1>6. Snapshots \o At(1) \o At(2) \o At(3) \o At(4) \o At(5)
                \o At(6) \o At(7) \o At(8) \o At(9) \o At(10) \in S
  <2>1. Snapshots \o At(1) \o At(2) \o At(3) \o At(4) \o At(5) \in S
    BY <1>2, <1>4, <1>5
  <2> DEFINE h == Snapshots \o At(1) \o At(2) \o At(3) \o At(4) \o At(5)
  <2>2. h \in S
    BY <2>1
  <2> HIDE DEF h
  <2>3. h \o At(6) \o At(7) \o At(8) \o At(9) \o At(10) \in S
    BY <1>4, <1>5, <2>2
  <2>4. QED
    BY <2>3 DEF h
<1>7. QED
  BY <1>6 DEF Due, S, Snapshots, At

\* So is a change of the status.
LEMMA StatusIsAgenda ==
    ASSUME NEW s \in Statuses, NEW t \in Statuses, NEW d \in Nat
    PROVE  StatusChange(s, t, d) \in Seq(Items(d))
<1>1. StatusKey(s, t) \in Keys
  BY DEF Keys
<1>2. Event(StatusKey(s, t), d) \in Items(d) /\ SaveStatus \in Items(d)
  BY <1>1 DEF Items
<1>3. QED
  BY <1>2 DEF StatusChange

-----------------------------------------------------------------------------
(* Types are kept *)

\* Only actor a moves, to a good state.
LEMMA OneMoves ==
    ASSUME Types, NEW a \in Actors, NEW x,
           actors' = [actors EXCEPT ![a] = x],
           reserved \subseteq reserved', day' = day, Good(x, reserved', day)
    PROVE  /\ DOMAIN actors' = Actors
           /\ actors'[a] = x
           /\ \A b \in Actors \ {a} : actors'[b] = actors[b]
           /\ \A b \in Actors : Good(actors'[b], reserved', day')
<1>1. DOMAIN actors' = Actors /\ actors'[a] = x
      /\ \A b \in Actors \ {a} : actors'[b] = actors[b]
  BY DEF Types
<1>2. day \in Nat
  BY PeriodEventsAssumption DEF Types
<1>3. \A b \in Actors \ {a} : Good(actors[b], reserved', day)
  BY <1>2, GoodGrows DEF Types
<1>4. QED
  BY <1>1, <1>3

\* Where Continue leaves an actor.
Continued(a, agenda) ==
    IF agenda # <<>> THEN [actors[a] EXCEPT !.pc = "next", !.agenda = agenda]
    ELSE IF a = Scheduler THEN Idle ELSE Done

\* Going on with an agenda is good, and is being busy with no row.
LEMMA ContinuedIsGood ==
    ASSUME Types, NEW a \in Actors, actors[a].pc \notin {"idle", "done"},
           NEW q \in Seq(Items(day)), Continue(a, q), NEW rows
    PROVE  /\ actors' = [actors EXCEPT ![a] = Continued(a, q)]
           /\ Good(Continued(a, q), rows, day)
           /\ Continued(a, q).pc \notin OnRow
<1>1. actors' = [actors EXCEPT ![a] = Continued(a, q)]
  BY DEF Types, Continue, Continued
<1>2. CASE q = <<>>
  BY <1>1, <1>2 DEF Continued, Good, Idle, Done, OnRow
<1>3. CASE q # <<>>
  <2>1. actors[a] \in Busy(day)
    BY AtStatement DEF Types
  <2>2. Continued(a, q) = [actors[a] EXCEPT !.pc = "next", !.agenda = q]
    BY <1>3 DEF Continued
  <2>3. Continued(a, q) \in Busy(day) /\ Continued(a, q).pc = "next"
        /\ Continued(a, q).agenda = q
    BY <2>1, <2>2 DEF Busy
  <2>4. QED
    BY <1>1, <1>3, <2>3 DEF Good, OnRow
<1>4. QED
  BY <1>2, <1>3

\* One more copy of a notice, and of no other.
LEMMA Enqueued ==
    ASSUME Types, NEW n \in AllNotices, Enqueue(n)
    PROVE  /\ DOMAIN sent' \subseteq AllNotices
           /\ \A m \in DOMAIN sent' : sent'[m] \in Nat \ {0}
           /\ \A m \in AllNotices : Copies(m) \in Nat
           /\ \A m \in AllNotices : Copies(m)' = IF m = n THEN Copies(m) + 1 ELSE Copies(m)
<1>1. \A m \in AllNotices : Copies(m) \in Nat
  BY DEF Types, Copies
<1>2. sent' = [m \in DOMAIN sent \cup {n} |-> IF m = n THEN Copies(n) + 1 ELSE sent[m]]
  BY DEF Enqueue
<1>3. DOMAIN sent' = DOMAIN sent \cup {n}
  BY <1>2
<1>4. sent'[n] = Copies(n) + 1 /\ \A m \in DOMAIN sent : m # n => sent'[m] = sent[m]
  BY <1>2
<1>5. \A m \in AllNotices : Copies(m)' = IF m = n THEN Copies(m) + 1 ELSE Copies(m)
  BY <1>3, <1>4 DEF Copies
<1>6. \A m \in DOMAIN sent' : sent'[m] \in Nat \ {0}
  BY <1>1, <1>3, <1>4 DEF Types
<1>7. QED
  BY <1>1, <1>3, <1>5, <1>6 DEF Types

\* The notices of a row an actor is busy with.
LEMMA RowNotices ==
    ASSUME Types, NEW a \in Actors, actors[a].pc \in OnRow
    PROVE  /\ RowOf(a) = RowIn(actors[a])
           /\ RowOf(a) \in reserved /\ RowOf(a) \in EventRows(day)
           /\ Notice(RowOf(a), Everyone) \in AllNotices
           /\ \A l \in Lecturers : Notice(RowOf(a), l) \in AllNotices
<1>1. RowOf(a) = RowIn(actors[a])
  BY DEF RowOf, RowIn, Agenda
<1>2. actors[a].pc \notin {"idle", "done"} /\ Good(actors[a], reserved, day)
  BY DEF OnRow, Types
<1>3. RowOf(a) \in reserved
  BY <1>1, <1>2, AtStatement
<1>4. RowOf(a) \in EventRows(day)
  BY <1>3 DEF Types
<1>5. RowOf(a).key \in Keys /\ RowOf(a).date \in 0 .. LastDay
  BY <1>4, PeriodEventsAssumption DEF EventRows, Types
<1>6. QED
  BY <1>1, <1>3, <1>4, <1>5 DEF AllNotices, Notice

\* An actor moves within its row.
LEMMA RowMoved ==
    ASSUME NEW x, NEW r, NEW d, Good(x, r, d), x.pc \in OnRow,
           NEW pc \in OnRow, NEW left \in SUBSET Lecturers, NEW y,
           y = [x EXCEPT !.pc = pc] \/ y = [x EXCEPT !.left = left]
    PROVE  Good(y, r, d) /\ RowIn(y) = RowIn(x)
<1>1. /\ x \in Busy(d) /\ x.agenda # <<>> /\ Head(x.agenda).do = "event" /\ RowIn(x) \in r
  BY AtStatement DEF OnRow
<1>2. CASE y = [x EXCEPT !.pc = pc]
  <2>1. y \in Busy(d) /\ y.agenda = x.agenda /\ y.pc = pc
    BY <1>1, <1>2 DEF Busy
  <2>2. QED
    BY <1>1, <2>1 DEF Good, RowIn, OnRow
<1>3. CASE y = [x EXCEPT !.left = left]
  <2>1. y \in Busy(d) /\ y.agenda = x.agenda /\ y.pc = x.pc
    BY <1>1, <1>3 DEF Busy
  <2>2. QED
    BY <1>1, <2>1 DEF Good, RowIn, OnRow
<1>4. QED
  BY <1>2, <1>3

\* An actor that stands at no row changes only itself, and takes up no row.
Aside(a) ==
    /\ actors[a].pc \notin OnRow \cup {"done"}
    /\ \E y : /\ Good(y, reserved, day) /\ y.pc \notin OnRow
             /\ actors' = [actors EXCEPT ![a] = y]
    /\ UNCHANGED <<day, reserved, published, sent, failures>>

\* The steps that are aside.
AsideStep(a) ==
    \/ a = Scheduler /\ StartCheck
    \/ a \in Updates /\ (ReadSemester(a) \/ WriteSemester(a) \/ RereadSemester(a))
    \/ ListTimeEvents(a) \/ CheckStatusState(a) \/ UpsertStatusState(a) \/ SkipSnapshot(a)
    \/ ReserveEvent(a) /\ RowOf(a) \in published

\* An actor at an item of its agenda goes on with what is left of it.
LEMMA HasNextParts ==
    ASSUME Types, NEW a \in Actors, actors[a].pc = "next"
    PROVE  /\ Agenda(a) \in Seq(Items(day)) /\ Agenda(a) # <<>>
           /\ Head(Agenda(a)) \in Items(day) /\ Tail(Agenda(a)) \in Seq(Items(day))
           /\ actors[a].row \in Rows
           /\ actors[a].pc \notin OnRow \cup {"idle", "done"}
<1>1. Good(actors[a], reserved, day) /\ actors[a].pc \notin OnRow \cup {"idle", "done"}
  BY DEF Types, OnRow
<1>2. actors[a].agenda \in Seq(Items(day)) /\ actors[a].agenda # <<>> /\ actors[a].row \in Rows
  BY <1>1, AtStatement
<1>3. QED
  BY <1>1, <1>2, AgendaParts DEF Agenda

\* To go on is a step aside.
LEMMA ContinuesAside ==
    ASSUME Types, NEW a \in Actors, actors[a].pc \notin OnRow \cup {"idle", "done"},
           NEW q \in Seq(Items(day)), Continue(a, q),
           UNCHANGED <<day, reserved, published, sent, failures>>
    PROVE  Aside(a)
<1>1. /\ actors' = [actors EXCEPT ![a] = Continued(a, q)]
      /\ Good(Continued(a, q), reserved, day)
      /\ Continued(a, q).pc \notin OnRow
  BY ContinuedIsGood
<1>2. QED
  BY <1>1 DEF Aside

\* They are, and keep the semester and the status last seen what they can be.
LEMMA StepsAside ==
    ASSUME Types, NEW a \in Actors, AsideStep(a)
    PROVE  /\ Aside(a)
           /\ semester' \in Rows /\ schedule' = schedule
           /\ seen' \in Statuses \cup {Unknown}
<1> USE DEF database
<1>0. day \in Nat /\ semester \in Rows /\ seen \in Statuses \cup {Unknown}
  BY PeriodEventsAssumption DEF Types
<1>1. CASE a = Scheduler /\ StartCheck
  <2> DEFINE y == [pc |-> "next", row |-> semester, agenda |-> <<TimeEvents, CheckStatus>>,
                   left |-> {}]
  <2>1. <<TimeEvents, CheckStatus>> \in Seq(Items(day)) /\ <<TimeEvents, CheckStatus>> # <<>>
    BY DEF Items
  <2>2. y \in Busy(day)
    BY <1>0, <2>1 DEF Busy
  <2>3. Good(y, reserved, day) /\ y.pc \notin OnRow
    BY <2>1, <2>2 DEF Good, OnRow
  <2>4. actors' = [actors EXCEPT ![a] = y] /\ actors[a].pc \notin OnRow \cup {"done"}
    BY <1>1 DEF StartCheck, OnRow
  <2> HIDE DEF y
  <2>5. QED
    BY <1>0, <1>1, <2>3, <2>4 DEF Aside, StartCheck
<1>2. CASE a \in Updates /\ ReadSemester(a)
  <2> DEFINE y == [pc |-> "write", row |-> semester, agenda |-> <<>>, left |-> {}]
  <2>1. y \in Busy(day)
    BY <1>0 DEF Busy
  <2>2. Good(y, reserved, day) /\ y.pc \notin OnRow
    BY <2>1 DEF Good, OnRow
  <2>3. actors' = [actors EXCEPT ![a] = y] /\ actors[a].pc \notin OnRow \cup {"done"}
    BY <1>2 DEF ReadSemester, OnRow
  <2> HIDE DEF y
  <2>4. QED
    BY <1>0, <1>2, <2>2, <2>3 DEF Aside, ReadSemester
<1>3. CASE a \in Updates /\ WriteSemester(a)
  <2> DEFINE y == [actors[a] EXCEPT !.pc = "reread"]
  <2>1. actors[a] \in Busy(day) /\ actors[a].pc \notin OnRow \cup {"done"}
    BY <1>3, AtStatement DEF Types, WriteSemester, OnRow
  <2>2. y \in Busy(day) /\ y.pc = "reread"
    BY <2>1 DEF Busy
  <2>3. Good(y, reserved, day) /\ y.pc \notin OnRow
    BY <2>2 DEF Good, OnRow
  <2>4. actors' = [actors EXCEPT ![a] = y]
    BY <1>3 DEF WriteSemester
  <2>5. semester' \in Rows
    BY <1>3 DEF WriteSemester, Rows
  <2> HIDE DEF y
  <2>6. QED
    BY <1>0, <1>3, <2>1, <2>3, <2>4, <2>5 DEF Aside, WriteSemester
<1>4. CASE a \in Updates /\ RereadSemester(a)
  <2> DEFINE q == StatusChange(actors[a].row.status, semester.status, day) \o <<TimeEvents>>
  <2> DEFINE y == [pc |-> "next", row |-> semester, agenda |-> q, left |-> actors[a].left]
  <2>1. /\ actors[a].pc \notin OnRow \cup {"done"}
        /\ actors[a] = [pc |-> actors[a].pc, row |-> actors[a].row,
                        agenda |-> actors[a].agenda, left |-> actors[a].left]
        /\ actors[a].row \in Rows /\ actors[a].left \subseteq Lecturers
    BY <1>4, AtStatement DEF Types, RereadSemester, OnRow
  <2>2. StatusChange(actors[a].row.status, semester.status, day) \in Seq(Items(day))
    BY <1>0, <2>1, StatusIsAgenda DEF Rows
  <2>3. <<TimeEvents>> \in Seq(Items(day))
    BY DEF Items
  <2>4. q \in Seq(Items(day)) /\ q # <<>>
    BY <2>2, <2>3
  <2>5. actors' = [actors EXCEPT ![a] = y]
    <3>1. actors' = [actors EXCEPT ![a].pc = "next", ![a].row = semester, ![a].agenda = q]
      BY <1>4 DEF RereadSemester
    <3>2. DOMAIN actors = Actors /\ DOMAIN actors' = Actors
      BY <3>1 DEF Types
    <3>3. \A b \in Actors \ {a} : actors'[b] = actors[b]
      BY <3>1, <3>2
    <3>4. actors'[a] = [actors[a] EXCEPT !.pc = "next", !.row = semester, !.agenda = q]
      BY <3>1, <3>2
    <3> HIDE DEF q
    <3>5. actors'[a] = y
      BY <2>1, <3>4
    <3>6. actors' = [b \in Actors |-> actors'[b]] /\ actors = [b \in Actors |-> actors[b]]
      BY <3>1 DEF Types
    <3>7. QED
      BY <3>2, <3>3, <3>5, <3>6
  <2> HIDE DEF q
  <2>6. y \in Busy(day)
    BY <1>0, <2>1, <2>4 DEF Busy
  <2>7. Good(y, reserved, day) /\ y.pc \notin OnRow
    BY <2>4, <2>6 DEF Good, OnRow
  <2> HIDE DEF y
  <2>8. QED
    BY <1>0, <1>4, <2>1, <2>5, <2>7 DEF Aside, RereadSemester
<1>5. CASE ListTimeEvents(a)
  <2>1. actors[a].pc = "next" /\ Continue(a, Due(actors[a].row.dates, day) \o Tail(Agenda(a)))
    BY <1>5 DEF ListTimeEvents, HasNext
  <2>2. Due(actors[a].row.dates, day) \in Seq(Items(day))
    BY <1>0, DueIsAgenda
  <2>3. Due(actors[a].row.dates, day) \o Tail(Agenda(a)) \in Seq(Items(day))
    BY <2>1, <2>2, HasNextParts
  <2>4. QED
    BY <1>0, <1>5, <2>1, <2>3, HasNextParts, ContinuesAside DEF ListTimeEvents
<1>6. CASE CheckStatusState(a)
  <2> DEFINE q == IF seen = Unknown THEN <<SaveStatus>>
                  ELSE StatusChange(seen, actors[a].row.status, day)
  <2>1. actors[a].pc = "next" /\ Continue(a, q)
    BY <1>6 DEF CheckStatusState, HasNext
  <2>2. <<SaveStatus>> \in Seq(Items(day))
    BY DEF Items
  <2>3. seen # Unknown => StatusChange(seen, actors[a].row.status, day) \in Seq(Items(day))
    BY <1>0, <2>1, HasNextParts, StatusIsAgenda DEF Rows
  <2>4. q \in Seq(Items(day))
    BY <2>2, <2>3
  <2> HIDE DEF q
  <2>5. QED
    BY <1>0, <1>6, <2>1, <2>4, HasNextParts, ContinuesAside DEF CheckStatusState
<1>7. CASE UpsertStatusState(a)
  <2>1. actors[a].pc = "next" /\ Continue(a, Tail(Agenda(a)))
    BY <1>7 DEF UpsertStatusState, HasNext
  <2>2. actors[a].row.status \in Statuses
    BY <2>1, HasNextParts DEF Rows
  <2>3. QED
    BY <1>0, <1>7, <2>1, <2>2, HasNextParts, ContinuesAside DEF UpsertStatusState
<1>8. CASE SkipSnapshot(a)
  <2>1. actors[a].pc = "next" /\ Continue(a, Tail(Agenda(a)))
    BY <1>8 DEF SkipSnapshot, HasNext
  <2>2. QED
    BY <1>0, <1>8, <2>1, HasNextParts, ContinuesAside DEF SkipSnapshot
<1>9. CASE ReserveEvent(a) /\ RowOf(a) \in published
  <2>1. actors[a].pc = "next" /\ Continue(a, Tail(Agenda(a)))
    BY <1>9 DEF ReserveEvent, HasNext
  <2>2. reserved' = reserved
    BY <1>9 DEF ReserveEvent, Types
  <2>3. QED
    BY <1>0, <1>9, <2>1, <2>2, HasNextParts, ContinuesAside DEF ReserveEvent
<1>10. QED
  BY <1>1, <1>2, <1>3, <1>4, <1>5, <1>6, <1>7, <1>8, <1>9 DEF AsideStep

\* An actor takes up the row at the head of its agenda.
TakenUp(a) ==
    \E y : /\ actors' = [actors EXCEPT ![a] = y]
          /\ Good(y, reserved', day)
          /\ RowIn(y) = RowOf(a)
          /\ (RowOf(a).key = SnapshotKey => (y.pc = "fan out" /\ y.left = Lecturers))
          /\ (RowOf(a).key # SnapshotKey => y.pc = "publish")

\* An event that is not published is taken up.
LEMMA TakesUp ==
    ASSUME Types, NEW a \in Actors, ReserveEvent(a), RowOf(a) \notin published
    PROVE  /\ actors[a].pc \notin OnRow \cup {"done"}
           /\ RowOf(a) \in EventRows(day)
           /\ reserved' = reserved \cup {RowOf(a)}
           /\ TakenUp(a)
           /\ UNCHANGED <<day, semester, schedule, seen, published, sent, failures>>
<1>1. /\ actors[a].pc = "next" /\ Head(Agenda(a)).do = "event"
      /\ reserved' = reserved \cup {RowOf(a)}
  BY DEF ReserveEvent, HasNext
<1>2. RowOf(a) \in EventRows(day)
  BY <1>1, HasNextParts, EventIsRow DEF RowOf
<1>3. actors[a] \in Busy(day) /\ actors[a].agenda = Agenda(a) /\ Agenda(a) # <<>>
  BY <1>1, AtStatement DEF Types, Agenda
<1>4. CASE RowOf(a).key = SnapshotKey
  <2> DEFINE y == [actors[a] EXCEPT !.pc = "fan out", !.left = Lecturers]
  <2>1. actors' = [actors EXCEPT ![a].pc = "fan out", ![a].left = Lecturers]
    BY <1>4 DEF ReserveEvent
  <2>2. actors' = [actors EXCEPT ![a] = y]
    <3>1. DOMAIN actors' = Actors /\ actors'[a] = y
          /\ \A b \in Actors \ {a} : actors'[b] = actors[b]
      BY <2>1 DEF Types
    <3>2. actors' = [b \in Actors |-> actors'[b]] /\ actors = [b \in Actors |-> actors[b]]
      BY <2>1 DEF Types
    <3> HIDE DEF y
    <3>3. QED
      BY <3>1, <3>2
  <2>3. /\ y \in Busy(day) /\ y.pc = "fan out" /\ y.left = Lecturers
        /\ y.agenda = Agenda(a)
    BY <1>3 DEF Busy, OnRow
  <2> HIDE DEF y
  <2>4. RowIn(y) = RowOf(a)
    BY <2>3 DEF RowIn, RowOf
  <2>5. Good(y, reserved', day)
    BY <1>1, <1>3, <2>3, <2>4 DEF Good
  <2>6. QED
    BY <1>1, <1>2, <1>4, <2>2, <2>3, <2>4, <2>5 DEF ReserveEvent, OnRow, TakenUp
<1>5. CASE RowOf(a).key # SnapshotKey
  <2> DEFINE y == [actors[a] EXCEPT !.pc = "publish"]
  <2>1. actors' = [actors EXCEPT ![a] = y]
    BY <1>5 DEF ReserveEvent
  <2>2. y \in Busy(day) /\ y.pc = "publish" /\ y.agenda = Agenda(a)
    BY <1>3 DEF Busy, OnRow
  <2> HIDE DEF y
  <2>3. RowIn(y) = RowOf(a)
    BY <2>2 DEF RowIn, RowOf
  <2>4. Good(y, reserved', day)
    BY <1>1, <1>3, <2>2, <2>3 DEF Good
  <2>5. QED
    BY <1>1, <1>2, <1>5, <2>1, <2>2, <2>3, <2>4 DEF ReserveEvent, OnRow, TakenUp
<1>6. QED
  BY <1>4, <1>5

\* An actor goes on within its row.
Within(a, pc, left) ==
    \E y : /\ actors' = [actors EXCEPT ![a] = y]
          /\ Good(y, reserved', day)
          /\ RowIn(y) = RowOf(a)
          /\ y.pc = pc /\ y.left = left

\* Publishing to all moves on to the mark.
LEMMA PublishMoves ==
    ASSUME Types, NEW a \in Actors, PublishNotice(a)
    PROVE  /\ actors[a].pc = "publish" /\ Within(a, "mark", actors[a].left)
           /\ IF Lecturers = {} THEN UNCHANGED sent ELSE Enqueue(Notice(RowOf(a), Everyone))
           /\ UNCHANGED <<day, database, failures>>
<1> DEFINE y == [actors[a] EXCEPT !.pc = "mark"]
<1>1. /\ actors[a].pc = "publish" /\ actors' = [actors EXCEPT ![a] = y]
      /\ UNCHANGED <<day, database, failures>>
  BY DEF PublishNotice
<1>2. Good(actors[a], reserved, day) /\ actors[a] \in Busy(day)
  BY <1>1, AtStatement DEF Types
<1>3. y.pc = "mark" /\ y.left = actors[a].left
  BY <1>2 DEF Busy
<1>4. Good(y, reserved, day) /\ RowIn(y) = RowIn(actors[a])
  <2>1. "mark" \in OnRow /\ actors[a].pc \in OnRow /\ {} \in SUBSET Lecturers
    BY <1>1 DEF OnRow
  <2>2. QED
    BY <1>2, <2>1, RowMoved
<1> HIDE DEF y
<1>5. RowIn(y) = RowOf(a)
  BY <1>1, <1>4, RowNotices DEF OnRow
<1>6. QED
  BY <1>1, <1>3, <1>4, <1>5 DEF Within, PublishNotice, database

\* A snapshot is published, or fails; its lecturer is dealt with.
LEMMA SnapshotMoves ==
    ASSUME Types, NEW a \in Actors, NEW l \in Lecturers, PublishSnapshot(a, l)
    PROVE  /\ actors[a].pc = "fan out" /\ l \in actors[a].left
           /\ Within(a, "fan out", actors[a].left \ {l})
           /\ \/ Enqueue(Notice(RowOf(a), l)) /\ UNCHANGED failures
              \/ failures < MaxFailures /\ failures' = failures + 1 /\ UNCHANGED sent
           /\ UNCHANGED <<day, database>>
<1> DEFINE rest == actors[a].left \ {l}
<1> DEFINE y == [actors[a] EXCEPT !.left = rest]
<1>1. /\ actors[a].pc = "fan out" /\ l \in actors[a].left
      /\ actors' = [actors EXCEPT ![a] = y]
      /\ UNCHANGED <<day, database>>
  BY DEF PublishSnapshot
<1>2. /\ Good(actors[a], reserved, day) /\ actors[a] \in Busy(day)
      /\ actors[a].left \subseteq Lecturers
  BY <1>1, AtStatement DEF Types
<1>3. y.pc = "fan out" /\ y.left = rest
  BY <1>1, <1>2 DEF Busy
<1>4. Good(y, reserved, day) /\ RowIn(y) = RowIn(actors[a])
  <2>1. "mark" \in OnRow /\ actors[a].pc \in OnRow /\ rest \in SUBSET Lecturers
    BY <1>1, <1>2 DEF OnRow
  <2> HIDE DEF rest
  <2>2. QED
    BY <1>2, <2>1, RowMoved
<1> HIDE DEF y
<1>5. RowIn(y) = RowOf(a)
  BY <1>1, <1>4, RowNotices DEF OnRow
<1>6. QED
  BY <1>1, <1>3, <1>4, <1>5 DEF Within, PublishSnapshot, database

\* When everybody has been dealt with the row is to be marked.
LEMMA FanOutMoves ==
    ASSUME Types, NEW a \in Actors, FanOutEnds(a)
    PROVE  /\ actors[a].pc = "fan out" /\ actors[a].left = {}
           /\ Within(a, "mark", {})
           /\ UNCHANGED <<day, database, sent, failures>>
<1> DEFINE y == [actors[a] EXCEPT !.pc = "mark"]
<1>1. /\ actors[a].pc = "fan out" /\ actors[a].left = {}
      /\ actors' = [actors EXCEPT ![a] = y]
      /\ UNCHANGED <<day, database, sent, failures>>
  BY DEF FanOutEnds
<1>2. Good(actors[a], reserved, day) /\ actors[a] \in Busy(day)
  BY <1>1, AtStatement DEF Types
<1>3. y.pc = "mark" /\ y.left = {}
  BY <1>1, <1>2 DEF Busy
<1>4. Good(y, reserved, day) /\ RowIn(y) = RowIn(actors[a])
  <2>1. "mark" \in OnRow /\ actors[a].pc \in OnRow /\ {} \in SUBSET Lecturers
    BY <1>1 DEF OnRow
  <2>2. QED
    BY <1>2, <2>1, RowMoved
<1> HIDE DEF y
<1>5. RowIn(y) = RowOf(a)
  BY <1>1, <1>4, RowNotices DEF OnRow
<1>6. QED
  BY <1>1, <1>3, <1>4, <1>5 DEF Within, database

\* An actor lets go of its row, or of whatever it was at.
Leaves(a) ==
    \E y : /\ actors' = [actors EXCEPT ![a] = y]
          /\ Good(y, reserved', day) /\ y.pc \notin OnRow

\* So it does once the row is marked.
LEMMA MarkLeaves ==
    ASSUME Types, NEW a \in Actors, MarkPublished(a)
    PROVE  /\ actors[a].pc = "mark" /\ Leaves(a)
           /\ published' = published \cup {RowOf(a)}
           /\ UNCHANGED <<day, semester, schedule, seen, reserved, sent, failures>>
<1>1. /\ actors[a].pc = "mark" /\ Continue(a, Tail(Agenda(a)))
      /\ published' = published \cup {RowOf(a)}
      /\ UNCHANGED <<day, semester, schedule, seen, reserved, sent, failures>>
  BY DEF MarkPublished
<1>2. Tail(Agenda(a)) \in Seq(Items(day))
  BY <1>1, AtStatement, AgendaParts DEF Types, Agenda, OnRow
<1>3. QED
  BY <1>1, <1>2, ContinuedIsGood DEF Leaves

\* So it does when a statement raises.
LEMMA FailureLeaves ==
    ASSUME Types, NEW a \in Actors, NoticeFails(a) \/ ActorFails(a)
    PROVE  /\ Leaves(a) /\ actors[a].pc # "done"
           /\ failures' = failures + 1 /\ failures' \in 0 .. MaxFailures
           /\ UNCHANGED <<day, database, sent>>
<1>1. failures' = failures + 1 /\ failures' \in 0 .. MaxFailures
  BY PeriodEventsAssumption DEF NoticeFails, ActorFails, Failure, Types
<1>2. CASE NoticeFails(a)
  <2>1. /\ actors[a].pc \in {"publish", "mark"} /\ Continue(a, Tail(Agenda(a)))
        /\ UNCHANGED <<day, database, sent>>
    BY <1>2 DEF NoticeFails
  <2>2. Tail(Agenda(a)) \in Seq(Items(day))
    BY <2>1, AtStatement, AgendaParts DEF Types, Agenda, OnRow
  <2>3. QED
    BY <1>1, <2>1, <2>2, ContinuedIsGood DEF Leaves
<1>3. CASE ActorFails(a)
  <2>1. /\ actors[a].pc \notin {"idle", "done"} /\ Continue(a, <<>>)
        /\ UNCHANGED <<day, database, sent>>
    BY <1>3 DEF ActorFails
  <2>2. <<>> \in Seq(Items(day))
    OBVIOUS
  <2>3. QED
    BY <1>1, <2>1, <2>2, ContinuedIsGood DEF Leaves
<1>4. QED
  BY <1>2, <1>3

\* A crash leaves everybody idle or done.
LEMMA CrashLeaves ==
    ASSUME Types, Crash
    PROVE  /\ DOMAIN actors' = Actors /\ actors' = [a \in Actors |-> actors'[a]]
           /\ \A a \in Actors : actors'[a] \in {Idle, Done} /\ Good(actors'[a], reserved', day')
           /\ \A a \in Actors \ {Scheduler} : actors[a].pc # "idle" => actors'[a] = Done
           /\ failures' = failures + 1 /\ failures' \in 0 .. MaxFailures
           /\ UNCHANGED <<day, database, sent>>
<1>1. actors' = [a \in Actors |->
          IF a = Scheduler \/ actors[a] = Idle THEN Idle ELSE Done]
  BY DEF Crash
<1>2. Idle.pc = "idle"
  BY DEF Idle
<1>3. QED
  BY <1>1, <1>2, PeriodEventsAssumption DEF Crash, Failure, Types, Good

\* What one actor may do that is not aside.
RowStep(a) ==
    \/ ReserveEvent(a) /\ RowOf(a) \notin published
    \/ PublishNotice(a) \/ (\E l \in Lecturers : PublishSnapshot(a, l))
    \/ FanOutEnds(a) \/ MarkPublished(a)
    \/ NoticeFails(a) \/ ActorFails(a)

\* A step is one of an actor, or of the surroundings.
LEMMA EveryStep ==
    ASSUME [Next]_vars
    PROVE  \/ \E a \in Actors : AsideStep(a) \/ RowStep(a)
           \/ Crash \/ NextDay \/ CreateSchedule \/ UNCHANGED vars
<1>1. Scheduler \in Actors /\ \A u \in Updates : u \in Actors
  BY DEF Actors
<1>2. ASSUME NEW a \in Actors, Work(a) PROVE AsideStep(a) \/ RowStep(a)
  BY <1>2 DEF Work, AsideStep, RowStep
<1>3. ASSUME NEW u \in Updates, ReadSemester(u) \/ Update(u)
      PROVE  AsideStep(u) \/ RowStep(u)
  BY <1>1, <1>2, <1>3 DEF Update, AsideStep
<1>4. CASE StartCheck
  BY <1>1, <1>4 DEF AsideStep
<1>5. QED
  BY <1>1, <1>2, <1>3, <1>4 DEF Next, RowStep

\* Actors that leave a row, stay within it or move aside are as they can be.
LEMMA MovedTypes ==
    ASSUME Types, NEW a \in Actors, UNCHANGED day, reserved \subseteq reserved',
           NEW y, actors' = [actors EXCEPT ![a] = y], Good(y, reserved', day)
    PROVE  /\ DOMAIN actors' = Actors /\ actors' = [b \in Actors |-> actors'[b]]
           /\ \A b \in Actors : Good(actors'[b], reserved', day')
<1>1. actors' = [b \in Actors |-> actors'[b]]
  BY DEF Types
<1>2. QED
  BY <1>1, OneMoves

\* The steps of an actor keep the types.
LEMMA StepTypes ==
    ASSUME Types, NEW a \in Actors, AsideStep(a) \/ RowStep(a)
    PROVE  Types'
<1> USE DEF database
<1>1. CASE AsideStep(a)
  <2>1. /\ Aside(a) /\ semester' \in Rows /\ schedule' = schedule
        /\ seen' \in Statuses \cup {Unknown}
    BY <1>1, StepsAside
  <2>2. PICK y : Good(y, reserved, day) /\ actors' = [actors EXCEPT ![a] = y]
    BY <2>1 DEF Aside
  <2>3. UNCHANGED <<day, reserved, published, sent, failures>>
    BY <2>1 DEF Aside
  <2>4. /\ DOMAIN actors' = Actors /\ actors' = [b \in Actors |-> actors'[b]]
        /\ \A b \in Actors : Good(actors'[b], reserved', day')
    BY <2>2, <2>3, MovedTypes
  <2>5. QED
    BY <2>1, <2>3, <2>4 DEF Types
<1>2. CASE ReserveEvent(a) /\ RowOf(a) \notin published
  <2>1. /\ RowOf(a) \in EventRows(day) /\ reserved' = reserved \cup {RowOf(a)}
        /\ UNCHANGED <<day, semester, schedule, seen, published, sent, failures>>
    BY <1>2, TakesUp
  <2>2. PICK y : actors' = [actors EXCEPT ![a] = y] /\ Good(y, reserved', day)
    <3>1. TakenUp(a)
      BY <1>2, TakesUp
    <3>2. QED
      BY <3>1 DEF TakenUp
  <2>3. /\ DOMAIN actors' = Actors /\ actors' = [b \in Actors |-> actors'[b]]
        /\ \A b \in Actors : Good(actors'[b], reserved', day')
    BY <2>1, <2>2, MovedTypes
  <2>4. QED
    BY <2>1, <2>3 DEF Types
<1>3. CASE PublishNotice(a)
  <2>1. /\ Within(a, "mark", actors[a].left) /\ UNCHANGED <<day, database, failures>>
        /\ IF Lecturers = {} THEN UNCHANGED sent ELSE Enqueue(Notice(RowOf(a), Everyone))
        /\ actors[a].pc \in OnRow
    BY <1>3, PublishMoves DEF OnRow
  <2>2. /\ DOMAIN actors' = Actors /\ actors' = [b \in Actors |-> actors'[b]]
        /\ \A b \in Actors : Good(actors'[b], reserved', day')
    BY <2>1, MovedTypes DEF Within
  <2>3. Notice(RowOf(a), Everyone) \in AllNotices
    BY <2>1, RowNotices
  <2>4. DOMAIN sent' \subseteq AllNotices /\ \A m \in DOMAIN sent' : sent'[m] \in Nat \ {0}
    BY <2>1, <2>3, Enqueued DEF Types
  <2>5. QED
    BY <2>1, <2>2, <2>4 DEF Types
<1>4. ASSUME NEW l \in Lecturers, PublishSnapshot(a, l) PROVE Types'
  <2>1. /\ Within(a, "fan out", actors[a].left \ {l}) /\ UNCHANGED <<day, database>>
        /\ \/ Enqueue(Notice(RowOf(a), l)) /\ UNCHANGED failures
           \/ failures < MaxFailures /\ failures' = failures + 1 /\ UNCHANGED sent
        /\ actors[a].pc \in OnRow
    BY <1>4, SnapshotMoves DEF OnRow
  <2>2. /\ DOMAIN actors' = Actors /\ actors' = [b \in Actors |-> actors'[b]]
        /\ \A b \in Actors : Good(actors'[b], reserved', day')
    BY <2>1, MovedTypes DEF Within
  <2>3. Notice(RowOf(a), l) \in AllNotices
    BY <2>1, RowNotices
  <2>4. DOMAIN sent' \subseteq AllNotices /\ \A m \in DOMAIN sent' : sent'[m] \in Nat \ {0}
    BY <2>1, <2>3, Enqueued DEF Types
  <2>5. failures' \in 0 .. MaxFailures
    <3>1. failures \in 0 .. MaxFailures /\ MaxFailures \in Nat
      BY PeriodEventsAssumption DEF Types
    <3>2. failures' = failures \/ (failures < MaxFailures /\ failures' = failures + 1)
      BY <2>1
    <3>3. QED
      BY <3>1, <3>2
  <2>6. QED
    BY <2>1, <2>2, <2>4, <2>5 DEF Types
<1>5. CASE FanOutEnds(a)
  <2>1. Within(a, "mark", {}) /\ UNCHANGED <<day, database, sent, failures>>
    BY <1>5, FanOutMoves
  <2>2. /\ DOMAIN actors' = Actors /\ actors' = [b \in Actors |-> actors'[b]]
        /\ \A b \in Actors : Good(actors'[b], reserved', day')
    BY <2>1, MovedTypes DEF Within
  <2>3. QED
    BY <2>1, <2>2 DEF Types
<1>6. CASE MarkPublished(a)
  <2>1. /\ Leaves(a) /\ actors[a].pc \in OnRow
        /\ published' = published \cup {RowOf(a)}
        /\ UNCHANGED <<day, semester, schedule, seen, reserved, sent, failures>>
    BY <1>6, MarkLeaves DEF OnRow
  <2>2. /\ DOMAIN actors' = Actors /\ actors' = [b \in Actors |-> actors'[b]]
        /\ \A b \in Actors : Good(actors'[b], reserved', day')
    BY <2>1, MovedTypes DEF Leaves
  <2>3. RowOf(a) \in reserved
    BY <2>1, RowNotices
  <2>4. QED
    BY <2>1, <2>2, <2>3 DEF Types
<1>7. CASE NoticeFails(a) \/ ActorFails(a)
  <2>1. /\ Leaves(a) /\ failures' \in 0 .. MaxFailures
        /\ UNCHANGED <<day, database, sent>>
    BY <1>7, FailureLeaves
  <2>2. /\ DOMAIN actors' = Actors /\ actors' = [b \in Actors |-> actors'[b]]
        /\ \A b \in Actors : Good(actors'[b], reserved', day')
    BY <2>1, MovedTypes DEF Leaves
  <2>3. QED
    BY <2>1, <2>2 DEF Types
<1>8. QED
  BY <1>1, <1>2, <1>3, <1>4, <1>5, <1>6, <1>7 DEF RowStep

\* Every step keeps the types.
LEMMA NextTypes == Types /\ [Next]_vars => Types'
<1> SUFFICES ASSUME Types, [Next]_vars PROVE Types'
  OBVIOUS
<1> USE DEF database
<1>1. CASE Crash
  BY <1>1, CrashLeaves DEF Types
<1>2. CASE NextDay
  <2>1. /\ day \in Nat /\ day' = day + 1 /\ day' \in 0 .. LastDay
        /\ UNCHANGED <<database, sent, actors, failures>>
    BY <1>2, PeriodEventsAssumption DEF NextDay, Types
  <2>2. \A a \in Actors : Good(actors'[a], reserved', day')
    BY <2>1, GoodGrows DEF Types
  <2>3. EventRows(day) \subseteq EventRows(day')
    BY <2>1 DEF EventRows
  <2>4. QED
    BY <2>1, <2>2, <2>3 DEF Types
<1>3. CASE CreateSchedule
  BY <1>3 DEF CreateSchedule, Types
<1>4. CASE UNCHANGED vars
  BY <1>4 DEF vars, Types
<1>5. QED
  BY <1>1, <1>2, <1>3, <1>4, EveryStep, StepTypes

\* Before anything has been looked at.
LEMMA InitTypes == Init => Types
<1> SUFFICES ASSUME Init PROVE Types
  OBVIOUS
<1>1. \A a \in Actors : Good(actors[a], reserved, day)
  BY DEF Init, Good
<1>2. 0 \in 0 .. LastDay /\ 0 \in 0 .. MaxFailures
  BY PeriodEventsAssumption
<1>3. DOMAIN sent = {}
  BY DEF Init
<1>4. QED
  BY <1>1, <1>2, <1>3 DEF Init, Types, Rows

\* TypeOK says the part of the types that a reader needs.
LEMMA TypesAreOK == Types => TypeOK
<1> SUFFICES ASSUME Types PROVE TypeOK
  OBVIOUS
<1>1. \A e \in reserved : e.date \in 0 .. day
  BY DEF Types, EventRows
<1>2. ASSUME NEW a \in Actors
      PROVE  /\ \/ actors[a] \in {Idle, Done}
                \/ /\ actors[a].pc \in {"write", "reread", "next", "publish",
                                        "fan out", "mark"}
                   /\ actors[a].row \in Rows
                   /\ actors[a].left \subseteq Lecturers
             /\ actors[a].pc = "next" => actors[a].agenda # <<>>
             /\ actors[a].pc \in OnRow =>
                   /\ Head(actors[a].agenda).do = "event"
                   /\ [key |-> Head(actors[a].agenda).key,
                       date |-> Head(actors[a].agenda).date] \in reserved
  <2>1. Good(actors[a], reserved, day)
    BY DEF Types
  <2>2. CASE actors[a] \in {Idle, Done}
    <3>1. Idle.pc = "idle" /\ Done.pc = "done"
      BY DEF Idle, Done
    <3>2. QED
      BY <2>2, <3>1 DEF OnRow
  <2>3. CASE actors[a] \notin {Idle, Done}
    BY <2>1, <2>3 DEF Good, Busy, OnRow, RowIn
  <2>4. QED
    BY <2>2, <2>3
<1>3. QED
  BY <1>1, <1>2 DEF Types, TypeOK, Rows, OnRow

\* Types are right, whatever calendars, updates and failures there are.
THEOREM EventsAreTyped == Spec => []TypeOK
BY InitTypes, NextTypes, TypesAreOK, PTL DEF Spec

-----------------------------------------------------------------------------
(* What is published was sent *)

\* How many copies of a notice s holds.
In(s, n) == IF n \in DOMAIN s THEN s[n] ELSE 0

\* The lecturers without a snapshot about row e.
Missing(s, e) == {l \in Lecturers : In(s, Notice(e, l)) = 0}

\* Row e may be marked: its notices were sent, but for those that failed.
WasSent(s, f, e) ==
    IF e.key = SnapshotKey THEN Cardinality(Missing(s, e)) <= f
    ELSE Lecturers # {} => In(s, Notice(e, Everyone)) > 0

\* An actor in this state is on the way to having sent its row's notices.
Sending(s, f, x) ==
    /\ (x.pc = "fan out" => (RowIn(x).key = SnapshotKey
                             /\ Cardinality(Missing(s, RowIn(x)) \ x.left) <= f))
    /\ (x.pc = "publish" => RowIn(x).key # SnapshotKey)
    /\ (x.pc = "mark" => WasSent(s, f, RowIn(x)))

SentInv ==
    /\ \A e \in published : WasSent(sent, failures, e)
    /\ \A a \in Actors : Sending(sent, failures, actors[a])

\* t holds at least what s does.
NoFewer(s, t) ==
    \A n \in AllNotices : In(s, n) \in Nat /\ In(t, n) \in Nat /\ In(s, n) <= In(t, n)

\* More copies and more failures leave sent what was sent.
LEMMA StaysSent ==
    ASSUME NEW s, NEW t, NEW f \in Nat, NEW g \in Nat, f <= g, NoFewer(s, t),
           NEW e \in EventRows(LastDay)
    PROVE  /\ Missing(t, e) \subseteq Missing(s, e)
           /\ IsFiniteSet(Missing(s, e)) /\ IsFiniteSet(Missing(t, e))
           /\ WasSent(s, f, e) => WasSent(t, g, e)
<1>1. \A l \in Lecturers \cup {Everyone} : Notice(e, l) \in AllNotices
  BY DEF Notice, AllNotices, EventRows
<1>2. Missing(t, e) \subseteq Missing(s, e)
  BY <1>1 DEF Missing, NoFewer
<1>3. IsFiniteSet(Missing(s, e)) /\ IsFiniteSet(Missing(t, e))
  BY PeriodEventsAssumption, FS_Subset DEF Missing
<1>4. Cardinality(Missing(t, e)) <= Cardinality(Missing(s, e))
      /\ Cardinality(Missing(t, e)) \in Nat /\ Cardinality(Missing(s, e)) \in Nat
  BY <1>2, <1>3, FS_Subset, FS_CardinalityType
<1>5. CASE e.key = SnapshotKey
  BY <1>2, <1>3, <1>4, <1>5 DEF WasSent
<1>6. CASE e.key # SnapshotKey
  <2>1. /\ In(s, Notice(e, Everyone)) \in Nat /\ In(t, Notice(e, Everyone)) \in Nat
        /\ In(s, Notice(e, Everyone)) <= In(t, Notice(e, Everyone))
    BY <1>1 DEF NoFewer
  <2>2. QED
    BY <1>2, <1>3, <1>6, <2>1 DEF WasSent
<1>7. QED
  BY <1>5, <1>6

\* And leave an actor on its way.
LEMMA StaysSending ==
    ASSUME NEW s, NEW t, NEW f \in Nat, NEW g \in Nat, f <= g, NoFewer(s, t),
           NEW x, x.pc \in OnRow => RowIn(x) \in EventRows(LastDay), Sending(s, f, x)
    PROVE  Sending(t, g, x)
<1>1. CASE x.pc \notin OnRow
  BY <1>1 DEF Sending, OnRow
<1>2. CASE x.pc \in OnRow
  <2> DEFINE e == RowIn(x)
  <2>1. /\ Missing(t, e) \subseteq Missing(s, e) /\ IsFiniteSet(Missing(s, e))
        /\ WasSent(s, f, e) => WasSent(t, g, e)
    BY <1>2, StaysSent
  <2>2. /\ IsFiniteSet(Missing(s, e) \ x.left)
        /\ Missing(t, e) \ x.left \subseteq Missing(s, e) \ x.left
    BY <2>1, FS_Subset
  <2>3. /\ IsFiniteSet(Missing(t, e) \ x.left)
        /\ Cardinality(Missing(t, e) \ x.left) <= Cardinality(Missing(s, e) \ x.left)
    BY <2>2, FS_Subset
  <2>4. /\ Cardinality(Missing(t, e) \ x.left) \in Nat
        /\ Cardinality(Missing(s, e) \ x.left) \in Nat
    BY <2>2, <2>3, FS_CardinalityType
  <2> DEFINE m == Cardinality(Missing(s, e) \ x.left)
  <2> DEFINE k == Cardinality(Missing(t, e) \ x.left)
  <2>5. m <= f => k <= g
    BY <2>3, <2>4
  <2> QED
    BY <2>1, <2>5 DEF Sending
<1>3. QED
  BY <1>1, <1>2

\* An actor's row is one of those there can be.
LEMMA RowsInTime ==
    ASSUME Types
    PROVE  /\ \A e \in reserved : e \in EventRows(LastDay)
           /\ \A a \in Actors : actors[a].pc \in OnRow => RowIn(actors[a]) \in EventRows(LastDay)
           /\ NoFewer(sent, sent) /\ failures \in Nat
<1>1. \A e \in EventRows(day) : e \in EventRows(LastDay)
  <2>1. 0 .. day \subseteq 0 .. LastDay
    BY PeriodEventsAssumption DEF Types
  <2>2. QED
    BY <2>1 DEF EventRows
<1>2. \A e \in reserved : e \in EventRows(LastDay)
  BY <1>1 DEF Types
<1>3. ASSUME NEW a \in Actors, actors[a].pc \in OnRow PROVE RowIn(actors[a]) \in reserved
  BY <1>3, RowNotices
<1>4. NoFewer(sent, sent)
  BY DEF NoFewer, In, Types
<1>5. failures \in Nat
  BY PeriodEventsAssumption DEF Types
<1>6. QED
  BY <1>2, <1>3, <1>4, <1>5

\* One actor moves to where it may be, and marks what was sent.
LEMMA SentStep ==
    ASSUME Types, SentInv, NEW a \in Actors, NEW y, actors' = [actors EXCEPT ![a] = y],
           NoFewer(sent, sent'), failures' \in Nat, failures <= failures',
           NEW e, published' = published \/ (published' = published \cup {e}
                                             /\ WasSent(sent', failures', e)),
           Sending(sent', failures', y)
    PROVE  SentInv'
<1>1. actors'[a] = y /\ \A b \in Actors \ {a} : actors'[b] = actors[b]
  BY DEF Types
<1>2. failures \in Nat
  BY RowsInTime
<1>3. \A r \in published : WasSent(sent', failures', r)
  <2>1. \A r \in published : r \in EventRows(LastDay)
    BY RowsInTime DEF Types
  <2>2. QED
    BY <1>2, <2>1, StaysSent DEF SentInv
<1>4. \A b \in Actors : Sending(sent', failures', actors[b])
  BY <1>2, RowsInTime, StaysSending DEF SentInv
<1>5. \A b \in Actors : Sending(sent', failures', actors'[b])
  BY <1>1, <1>4
<1>6. QED
  BY <1>3, <1>5 DEF SentInv

\* An actor at no row is on the way.
LEMMA OffRowSending ==
    ASSUME NEW s, NEW f, NEW x, x.pc \notin OnRow
    PROVE  Sending(s, f, x)
BY DEF Sending, OnRow

\* Copies in terms of sent, before and after a step.
LEMMA CopiesAreIn == \A n : Copies(n) = In(sent, n) /\ Copies(n)' = In(sent', n)
BY DEF Copies, In

\* A copy more is no copy fewer.
LEMMA EnqueuedIn ==
    ASSUME Types, NEW n \in AllNotices, Enqueue(n)
    PROVE  /\ NoFewer(sent, sent')
           /\ \A m \in AllNotices : In(sent', m) = IF m = n THEN In(sent, m) + 1 ELSE In(sent, m)
<1>1. \A m \in AllNotices : In(sent, m) \in Nat
  BY Enqueued, CopiesAreIn
<1>2. \A m \in AllNotices : In(sent', m) = IF m = n THEN In(sent, m) + 1 ELSE In(sent, m)
  BY Enqueued, CopiesAreIn
<1>3. QED
  BY <1>1, <1>2 DEF NoFewer

\* The steps of an actor keep what is published sent.
LEMMA StepSent ==
    ASSUME Types, SentInv, NEW a \in Actors, AsideStep(a) \/ RowStep(a)
    PROVE  SentInv'
<1> USE DEF database
<1>0. failures \in Nat /\ NoFewer(sent, sent)
  BY RowsInTime
<1>1. CASE AsideStep(a)
  <2>1. Aside(a)
    BY <1>1, StepsAside
  <2>2. PICK y : y.pc \notin OnRow /\ actors' = [actors EXCEPT ![a] = y]
    BY <2>1 DEF Aside
  <2>3. UNCHANGED <<published, sent, failures>>
    BY <2>1 DEF Aside
  <2>4. /\ NoFewer(sent, sent') /\ failures' \in Nat /\ failures <= failures'
        /\ published' = published
    BY <1>0, <2>3
  <2>5. Sending(sent', failures', y)
    BY <2>2, OffRowSending
  <2>6. QED
    BY <2>2, <2>4, <2>5, SentStep
<1>2. CASE ReserveEvent(a) /\ RowOf(a) \notin published
  <2>1. TakenUp(a) /\ UNCHANGED <<published, sent, failures>>
    BY <1>2, TakesUp
  <2>2. PICK y : /\ actors' = [actors EXCEPT ![a] = y] /\ RowIn(y) = RowOf(a)
                 /\ (RowOf(a).key = SnapshotKey => (y.pc = "fan out" /\ y.left = Lecturers))
                 /\ (RowOf(a).key # SnapshotKey => y.pc = "publish")
    BY <2>1 DEF TakenUp
  <2>3. Sending(sent, failures, y)
    <3>1. CASE RowOf(a).key = SnapshotKey
      <4>1. Missing(sent, RowIn(y)) \ y.left = {}
        BY <2>2, <3>1 DEF Missing
      <4>2. Cardinality(Missing(sent, RowIn(y)) \ y.left) <= failures
        BY <1>0, <4>1, FS_EmptySet
      <4>3. QED
        BY <2>2, <3>1, <4>2 DEF Sending
    <3>2. CASE RowOf(a).key # SnapshotKey
      BY <2>2, <3>2 DEF Sending
    <3>3. QED
      BY <3>1, <3>2
  <2>4. /\ NoFewer(sent, sent') /\ failures' \in Nat /\ failures <= failures'
        /\ published' = published /\ Sending(sent', failures', y)
    BY <1>0, <2>1, <2>3
  <2>5. QED
    BY <2>2, <2>4, SentStep
<1>3. CASE PublishNotice(a)
  <2>1. /\ actors[a].pc = "publish" /\ Within(a, "mark", actors[a].left)
        /\ IF Lecturers = {} THEN UNCHANGED sent ELSE Enqueue(Notice(RowOf(a), Everyone))
        /\ UNCHANGED <<published, failures>>
    BY <1>3, PublishMoves
  <2>2. PICK y : actors' = [actors EXCEPT ![a] = y] /\ RowIn(y) = RowOf(a) /\ y.pc = "mark"
    BY <2>1 DEF Within
  <2>3. Notice(RowOf(a), Everyone) \in AllNotices /\ RowOf(a) = RowIn(actors[a])
    BY <2>1, RowNotices DEF OnRow
  <2>4. RowOf(a).key # SnapshotKey
    BY <2>1, <2>3 DEF SentInv, Sending
  <2>5. /\ NoFewer(sent, sent')
        /\ Lecturers # {} => In(sent', Notice(RowOf(a), Everyone)) > 0
    <3>1. CASE Lecturers = {}
      BY <1>0, <2>1, <3>1
    <3>2. CASE Lecturers # {}
      <4>1. /\ NoFewer(sent, sent')
            /\ In(sent', Notice(RowOf(a), Everyone)) = In(sent, Notice(RowOf(a), Everyone)) + 1
        BY <2>1, <2>3, <3>2, EnqueuedIn
      <4>2. In(sent, Notice(RowOf(a), Everyone)) \in Nat
        BY <1>0, <2>3 DEF NoFewer
      <4>3. QED
        BY <4>1, <4>2
    <3>3. QED
      BY <3>1, <3>2
  <2>6. Sending(sent', failures', y)
    BY <2>2, <2>4, <2>5 DEF Sending, WasSent
  <2>7. failures' \in Nat /\ failures <= failures' /\ published' = published
    BY <1>0, <2>1
  <2>8. QED
    BY <2>2, <2>5, <2>6, <2>7, SentStep
<1>4. ASSUME NEW l \in Lecturers, PublishSnapshot(a, l) PROVE SentInv'
  <2>1. /\ actors[a].pc = "fan out" /\ l \in actors[a].left
        /\ Within(a, "fan out", actors[a].left \ {l})
        /\ \/ Enqueue(Notice(RowOf(a), l)) /\ UNCHANGED failures
           \/ failures < MaxFailures /\ failures' = failures + 1 /\ UNCHANGED sent
        /\ UNCHANGED published
    BY <1>4, SnapshotMoves
  <2>0. published' = published
    BY <2>1
  <2> DEFINE e == RowOf(a)
  <2> DEFINE left == actors[a].left
  <2>2. PICK y : /\ actors' = [actors EXCEPT ![a] = y] /\ RowIn(y) = e
                 /\ y.pc = "fan out" /\ y.left = left \ {l}
    BY <2>1 DEF Within
  <2>3. Notice(e, l) \in AllNotices /\ e = RowIn(actors[a]) /\ e \in EventRows(LastDay)
    BY <2>1, RowNotices, RowsInTime DEF OnRow
  <2>4. e.key = SnapshotKey /\ Cardinality(Missing(sent, e) \ left) <= failures
    <3>1. Sending(sent, failures, actors[a])
      BY DEF SentInv
    <3> HIDE DEF e, left
    <3>2. QED
      BY <2>1, <2>3, <3>1 DEF Sending, left
  <2>5. IsFiniteSet(Missing(sent, e) \ left)
    BY PeriodEventsAssumption, FS_Subset DEF Missing
  <2>6. CASE Enqueue(Notice(e, l)) /\ UNCHANGED failures
    <3>1. /\ NoFewer(sent, sent')
          /\ In(sent', Notice(e, l)) = In(sent, Notice(e, l)) + 1
      BY <2>3, <2>6, EnqueuedIn
    <3>2. In(sent', Notice(e, l)) # 0
      BY <1>0, <2>3, <3>1 DEF NoFewer
    <3>3. Missing(sent', e) \subseteq Missing(sent, e)
      BY <1>0, <2>3, <3>1, StaysSent
    <3>4. Missing(sent', e) \ y.left \subseteq Missing(sent, e) \ left
      BY <2>2, <3>2, <3>3 DEF Missing
    <3>5. /\ IsFiniteSet(Missing(sent', e) \ y.left)
          /\ Cardinality(Missing(sent', e) \ y.left) <= Cardinality(Missing(sent, e) \ left)
      BY <2>5, <3>4, FS_Subset
    <3>6. Cardinality(Missing(sent', e) \ y.left) \in Nat
          /\ Cardinality(Missing(sent, e) \ left) \in Nat
      BY <2>5, <3>5, FS_CardinalityType
    <3>7. Cardinality(Missing(sent', e) \ y.left) <= failures'
      BY <1>0, <2>4, <2>6, <3>5, <3>6
    <3>8. Sending(sent', failures', y)
      BY <2>2, <2>4, <3>7 DEF Sending
    <3>9. failures' \in Nat /\ failures <= failures'
      BY <1>0, <2>6
    <3> HIDE DEF e, left
    <3>10. QED
      BY <2>0, <2>2, <3>1, <3>8, <3>9, SentStep
  <2>7. CASE failures' = failures + 1 /\ UNCHANGED sent
    <3>1. Missing(sent, e) \ y.left \subseteq (Missing(sent, e) \ left) \cup {l}
      BY <2>2
    <3>2. /\ IsFiniteSet((Missing(sent, e) \ left) \cup {l})
          /\ Cardinality((Missing(sent, e) \ left) \cup {l})
                <= Cardinality(Missing(sent, e) \ left) + 1
          /\ Cardinality(Missing(sent, e) \ left) \in Nat
      <4> DEFINE m == Missing(sent, e) \ left
      <4>1. IsFiniteSet(m)
        BY <2>5
      <4> HIDE DEF m
      <4>2. /\ IsFiniteSet(m \cup {l}) /\ Cardinality(m) \in Nat
            /\ \/ Cardinality(m \cup {l}) = Cardinality(m)
               \/ Cardinality(m \cup {l}) = Cardinality(m) + 1
        BY <4>1, FS_AddElement, FS_CardinalityType
      <4>3. QED
        BY <4>2 DEF m
    <3>3. /\ IsFiniteSet(Missing(sent, e) \ y.left)
          /\ Cardinality(Missing(sent, e) \ y.left)
                <= Cardinality((Missing(sent, e) \ left) \cup {l})
      BY <3>1, <3>2, FS_Subset
    <3>4. Cardinality(Missing(sent, e) \ y.left) \in Nat
          /\ Cardinality((Missing(sent, e) \ left) \cup {l}) \in Nat
      BY <3>2, <3>3, FS_CardinalityType
    <3>5. Cardinality(Missing(sent', e) \ y.left) <= failures'
      BY <1>0, <2>4, <2>7, <3>2, <3>3, <3>4
    <3>6. Sending(sent', failures', y)
      BY <2>2, <2>4, <3>5 DEF Sending
    <3>7. NoFewer(sent, sent') /\ failures' \in Nat /\ failures <= failures'
      BY <1>0, <2>7
    <3> HIDE DEF e, left
    <3>8. QED
      BY <2>0, <2>2, <3>6, <3>7, SentStep
  <2>8. QED
    BY <2>1, <2>6, <2>7
<1>5. CASE FanOutEnds(a)
  <2>1. /\ actors[a].pc = "fan out" /\ actors[a].left = {} /\ Within(a, "mark", {})
        /\ UNCHANGED <<published, sent, failures>>
    BY <1>5, FanOutMoves
  <2>2. PICK y : actors' = [actors EXCEPT ![a] = y] /\ RowIn(y) = RowOf(a) /\ y.pc = "mark"
    BY <2>1 DEF Within
  <2>3. RowOf(a) = RowIn(actors[a])
    BY <2>1, RowNotices DEF OnRow
  <2>4. /\ RowOf(a).key = SnapshotKey
        /\ Cardinality(Missing(sent, RowOf(a)) \ {}) <= failures
    <3>1. Sending(sent, failures, actors[a])
      BY DEF SentInv
    <3>2. QED
      BY <2>1, <2>3, <3>1 DEF Sending
  <2>5. Missing(sent, RowOf(a)) \ {} = Missing(sent, RowOf(a))
    OBVIOUS
  <2>6. Sending(sent, failures, y)
    BY <2>2, <2>4, <2>5 DEF Sending, WasSent
  <2>0. published' = published /\ sent' = sent /\ failures' = failures
    BY <2>1
  <2>7. /\ NoFewer(sent, sent') /\ failures' \in Nat /\ failures <= failures'
        /\ Sending(sent', failures', y)
    BY <1>0, <2>0, <2>6
  <2>8. QED
    BY <2>0, <2>2, <2>7, SentStep
<1>6. CASE MarkPublished(a)
  <2>1. /\ actors[a].pc = "mark" /\ Leaves(a)
        /\ published' = published \cup {RowOf(a)} /\ UNCHANGED <<sent, failures>>
    BY <1>6, MarkLeaves
  <2>2. PICK y : actors' = [actors EXCEPT ![a] = y] /\ y.pc \notin OnRow
    BY <2>1 DEF Leaves
  <2>3. RowOf(a) = RowIn(actors[a])
    BY <2>1, RowNotices DEF OnRow
  <2>4. WasSent(sent, failures, RowOf(a))
    BY <2>1, <2>3 DEF SentInv, Sending
  <2>5. /\ NoFewer(sent, sent') /\ failures' \in Nat /\ failures <= failures'
        /\ published' = published \cup {RowOf(a)}
    BY <1>0, <2>1
  <2>6. Sending(sent', failures', y) /\ WasSent(sent', failures', RowOf(a))
    BY <2>1, <2>2, <2>4, OffRowSending
  <2> DEFINE r == RowOf(a)
  <2> HIDE DEF r
  <2>7. published' = published \cup {r} /\ WasSent(sent', failures', r)
    BY <2>5, <2>6 DEF r
  <2>8. QED
    BY <2>2, <2>5, <2>6, <2>7, SentStep
<1>7. CASE NoticeFails(a) \/ ActorFails(a)
  <2>1. Leaves(a) /\ failures' = failures + 1 /\ UNCHANGED <<published, sent>>
    BY <1>7, FailureLeaves
  <2>2. PICK y : actors' = [actors EXCEPT ![a] = y] /\ y.pc \notin OnRow
    BY <2>1 DEF Leaves
  <2>3. /\ NoFewer(sent, sent') /\ failures' \in Nat /\ failures <= failures'
        /\ published' = published
    BY <1>0, <2>1
  <2>4. Sending(sent', failures', y)
    BY <2>2, OffRowSending
  <2>5. QED
    BY <2>2, <2>3, <2>4, SentStep
<1>8. QED
  BY <1>1, <1>2, <1>3, <1>4, <1>5, <1>6, <1>7 DEF RowStep

\* Every step does.
LEMMA NextSent == Types /\ SentInv /\ [Next]_vars => SentInv'
<1> SUFFICES ASSUME Types, SentInv, [Next]_vars PROVE SentInv'
  OBVIOUS
<1> USE DEF database
<1>1. CASE Crash
  <2>1. /\ \A a \in Actors : actors'[a] \in {Idle, Done}
        /\ failures' = failures + 1 /\ UNCHANGED <<published, sent>>
    BY <1>1, CrashLeaves
  <2>2. Idle.pc \notin OnRow /\ Done.pc \notin OnRow
    BY DEF Idle, Done, OnRow
  <2>3. \A a \in Actors : Sending(sent', failures', actors'[a])
    BY <2>1, <2>2, OffRowSending
  <2>4. /\ failures \in Nat /\ failures' \in Nat /\ failures <= failures'
        /\ NoFewer(sent, sent')
    BY <2>1, RowsInTime
  <2>5. \A e \in published : e \in EventRows(LastDay)
    BY RowsInTime DEF Types
  <2>6. \A e \in published' : WasSent(sent', failures', e)
    BY <2>1, <2>4, <2>5, StaysSent DEF SentInv
  <2>7. QED
    BY <2>3, <2>6 DEF SentInv
<1>2. CASE NextDay
  BY <1>2 DEF NextDay, SentInv
<1>3. CASE CreateSchedule
  BY <1>3 DEF CreateSchedule, SentInv
<1>4. CASE UNCHANGED vars
  BY <1>4 DEF vars, SentInv
<1>5. QED
  BY <1>1, <1>2, <1>3, <1>4, EveryStep, StepSent

\* Nothing is published at first, and nobody is busy.
LEMMA InitSent == Init => SentInv
<1> SUFFICES ASSUME Init PROVE SentInv
  OBVIOUS
<1>1. Idle.pc \notin OnRow
  BY DEF Idle, OnRow
<1>2. \A a \in Actors : Sending(sent, failures, actors[a])
  BY <1>1, OffRowSending DEF Init
<1>3. QED
  BY <1>2 DEF Init, SentInv

\* The invariant says it of every row that is published.
LEMMA SentIsPublished == SentInv => PublishedWasSent
<1> SUFFICES ASSUME SentInv, NEW e \in published
             PROVE  IF e.key = SnapshotKey
                    THEN Cardinality({l \in Lecturers : Copies(Notice(e, l)) = 0}) <= failures
                    ELSE Lecturers # {} => Copies(Notice(e, Everyone)) > 0
  BY DEF PublishedWasSent
<1>1. WasSent(sent, failures, e)
  BY DEF SentInv
<1>2. {l \in Lecturers : Copies(Notice(e, l)) = 0} = Missing(sent, e)
  BY CopiesAreIn DEF Missing
<1>3. QED
  BY <1>1, <1>2, CopiesAreIn DEF WasSent

\* A row is marked published only when its notices are in the queue, however
\* checks, updates, failures and crashes interleave.
THEOREM PublishedNoticesWereSent == Spec => []PublishedWasSent
<1>1. Init => Types /\ SentInv
  BY InitTypes, InitSent
<1>2. Types /\ SentInv /\ [Next]_vars => (Types /\ SentInv)'
  BY NextTypes, NextSent
<1>3. QED
  BY <1>1, <1>2, SentIsPublished, PTL DEF Spec

-----------------------------------------------------------------------------
(* Copies are counted *)

\* The row a notice is about.
RowFor(n) == [key |-> n.key, date |-> n.date]

\* In this state an actor has still to send notice n ...
ToTell(x, n) ==
    RowIn(x) = RowFor(n) /\ (x.pc = "publish" \/ (x.pc = "fan out" /\ n.to \in x.left))

\* ... and in this one it has done with it, and not yet with the row.
Told(x, n) ==
    RowIn(x) = RowFor(n) /\ (x.pc = "mark" \/ (x.pc = "fan out" /\ n.to \notin x.left))

\* Updates that are over count among those that told.
Tellers(act, n) == {a \in Actors : Told(act[a], n) \/ act[a] = Done}
Pending(act, n) == {a \in Actors : ToTell(act[a], n)}

\* Until its row is marked a notice has one copy at most for everyone who
\* told and for every failure; from then on nobody joins those who tell.
Counted(s, p, act, f, n) ==
    IF RowFor(n) \in p
    THEN In(s, n) + Cardinality(Pending(act, n)) <= Cardinality(Actors) + f
    ELSE In(s, n) <= Cardinality(Tellers(act, n)) + f

CountInv == \A n \in AllNotices : Counted(sent, published, actors, failures, n)

\* Nobody who told has still to tell.
LEMMA ToldOnce ==
    ASSUME NEW x, NEW n, Told(x, n) \/ x = Done
    PROVE  ~ToTell(x, n)
<1>1. CASE x = Done
  <2>1. x.pc = "done"
    BY <1>1 DEF Done
  <2>2. QED
    BY <2>1 DEF ToTell
<1>2. CASE Told(x, n)
  BY <1>2 DEF Told, ToTell
<1>3. QED
  BY <1>1, <1>2

\* Actors are finitely many, and so are any of them.
LEMMA ActorSets ==
    ASSUME NEW act, NEW n
    PROVE  /\ IsFiniteSet(Actors) /\ Cardinality(Actors) \in Nat
           /\ IsFiniteSet(Tellers(act, n)) /\ Cardinality(Tellers(act, n)) \in Nat
           /\ IsFiniteSet(Pending(act, n)) /\ Cardinality(Pending(act, n)) \in Nat
           /\ Cardinality(Tellers(act, n)) + Cardinality(Pending(act, n))
                 <= Cardinality(Actors)
<1>1. IsFiniteSet(Actors)
  BY PeriodEventsAssumption, FS_AddElement DEF Actors
<1>2. Tellers(act, n) \subseteq Actors /\ Pending(act, n) \subseteq Actors
  BY DEF Tellers, Pending
<1>3. Tellers(act, n) \cap Pending(act, n) = {}
  BY ToldOnce DEF Tellers, Pending
<1>4. IsFiniteSet(Tellers(act, n)) /\ IsFiniteSet(Pending(act, n))
  BY <1>1, <1>2, FS_Subset
<1> DEFINE T == Tellers(act, n)
<1> DEFINE P == Pending(act, n)
<1> HIDE DEF T, P
<1>5. /\ IsFiniteSet(T) /\ IsFiniteSet(P) /\ T \cap P = {} /\ T \cup P \subseteq Actors
  BY <1>2, <1>3, <1>4 DEF T, P
<1>6. /\ Cardinality(T) \in Nat /\ Cardinality(P) \in Nat /\ Cardinality(Actors) \in Nat
  BY <1>1, <1>5, FS_CardinalityType
<1>7. IsFiniteSet(T \cup P) /\ Cardinality(T \cup P) = Cardinality(T) + Cardinality(P)
  <2>1. Cardinality(T \cup P) = Cardinality(T) + Cardinality(P) - Cardinality(T \cap P)
    BY <1>5, FS_Union
  <2>2. Cardinality(T \cap P) = 0
    BY <1>5, FS_EmptySet
  <2>3. QED
    BY <1>5, <1>6, <2>1, <2>2, FS_Union
<1>8. Cardinality(T \cup P) <= Cardinality(Actors)
  BY <1>1, <1>5, FS_Subset
<1>9. QED
  BY <1>1, <1>5, <1>6, <1>7, <1>8 DEF T, P

\* Nobody who told is lost and nobody joins a marked row: as many copies and at
\* least as many failures leave the notice counted.
LEMMA CountKept ==
    ASSUME NEW n, NEW s, NEW t, In(s, n) \in Nat, In(t, n) = In(s, n),
           NEW p, NEW act, NEW new, NEW f \in Nat, NEW g \in Nat, f <= g,
           Counted(s, p, act, f, n),
           Tellers(act, n) \subseteq Tellers(new, n),
           RowFor(n) \in p => Pending(new, n) \subseteq Pending(act, n)
    PROVE  Counted(t, p, new, g, n)
<1> DEFINE T == Cardinality(Tellers(act, n))
<1> DEFINE U == Cardinality(Tellers(new, n))
<1> DEFINE P == Cardinality(Pending(act, n))
<1> DEFINE Q == Cardinality(Pending(new, n))
<1> DEFINE A == Cardinality(Actors)
<1>1. T \in Nat /\ U \in Nat /\ P \in Nat /\ Q \in Nat /\ A \in Nat
  BY ActorSets
<1>2. T <= U
  BY ActorSets, FS_Subset
<1>3. RowFor(n) \in p => Q <= P
  BY ActorSets, FS_Subset
<1>4. IF RowFor(n) \in p THEN In(s, n) + P <= A + f ELSE In(s, n) <= T + f
  BY DEF Counted
<1> HIDE DEF T, U, P, Q, A
<1>5. IF RowFor(n) \in p THEN In(t, n) + Q <= A + g ELSE In(t, n) <= U + g
  BY <1>1, <1>2, <1>3, <1>4
<1>6. QED
  BY <1>5 DEF Counted, U, Q, A

\* One who told is lost to a failure.
LEMMA CountFailed ==
    ASSUME NEW n, NEW s, In(s, n) \in Nat, NEW p, NEW act, NEW new, NEW f \in Nat,
           Counted(s, p, act, f, n), NEW a,
           Tellers(act, n) \subseteq Tellers(new, n) \cup {a},
           Pending(new, n) \subseteq Pending(act, n)
    PROVE  Counted(s, p, new, f + 1, n)
<1> DEFINE T == Cardinality(Tellers(act, n))
<1> DEFINE U == Cardinality(Tellers(new, n))
<1> DEFINE P == Cardinality(Pending(act, n))
<1> DEFINE Q == Cardinality(Pending(new, n))
<1> DEFINE A == Cardinality(Actors)
<1>1. T \in Nat /\ U \in Nat /\ P \in Nat /\ Q \in Nat /\ A \in Nat
  BY ActorSets
<1>2. T <= U + 1
  <2> DEFINE W == Tellers(new, n)
  <2>1. IsFiniteSet(W) /\ Cardinality(W) \in Nat
    BY ActorSets
  <2> HIDE DEF W
  <2>2. /\ IsFiniteSet(W \cup {a})
        /\ \/ Cardinality(W \cup {a}) = Cardinality(W)
           \/ Cardinality(W \cup {a}) = Cardinality(W) + 1
    BY <2>1, FS_AddElement
  <2>3. T <= Cardinality(W \cup {a})
    BY <2>2, FS_Subset DEF W
  <2>4. QED
    BY <1>1, <2>1, <2>2, <2>3 DEF W
<1>3. Q <= P
  BY ActorSets, FS_Subset
<1>4. IF RowFor(n) \in p THEN In(s, n) + P <= A + f ELSE In(s, n) <= T + f
  BY DEF Counted
<1> HIDE DEF T, U, P, Q, A
<1>5. IF RowFor(n) \in p THEN In(s, n) + Q <= A + (f + 1) ELSE In(s, n) <= U + (f + 1)
  BY <1>1, <1>2, <1>3, <1>4
<1>6. QED
  BY <1>5 DEF Counted, U, Q, A

\* One who had to tell has told.
LEMMA CountTold ==
    ASSUME NEW n, NEW s, NEW t, In(s, n) \in Nat, In(t, n) = In(s, n) + 1,
           NEW p, NEW act, NEW new, NEW f \in Nat, Counted(s, p, act, f, n),
           NEW a \in Actors, a \in Pending(act, n), a \in Tellers(new, n),
           Tellers(act, n) \subseteq Tellers(new, n),
           Pending(new, n) \subseteq Pending(act, n)
    PROVE  Counted(t, p, new, f, n)
<1> DEFINE T == Cardinality(Tellers(act, n))
<1> DEFINE U == Cardinality(Tellers(new, n))
<1> DEFINE P == Cardinality(Pending(act, n))
<1> DEFINE Q == Cardinality(Pending(new, n))
<1> DEFINE A == Cardinality(Actors)
<1>1. T \in Nat /\ U \in Nat /\ P \in Nat /\ Q \in Nat /\ A \in Nat
  BY ActorSets
<1>2. T + 1 <= U
  <2> DEFINE W == Tellers(act, n)
  <2>1. ToTell(act[a], n)
    BY DEF Pending
  <2>2. a \notin W
    BY <2>1, ToldOnce DEF Tellers
  <2>3. IsFiniteSet(W)
    BY ActorSets
  <2> HIDE DEF W
  <2>4. IsFiniteSet(W \cup {a}) /\ Cardinality(W \cup {a}) = Cardinality(W) + 1
    BY <2>2, <2>3, FS_AddElement
  <2>5. W \cup {a} \subseteq Tellers(new, n)
    BY DEF W
  <2>6. Cardinality(W \cup {a}) <= U
    BY <2>5, ActorSets, FS_Subset
  <2>7. QED
    BY <2>4, <2>6 DEF W
<1>3. Q + 1 <= P
  <2> DEFINE W == Pending(new, n)
  <2>1. Told(new[a], n) \/ new[a] = Done
    BY DEF Tellers
  <2>2. a \notin W
    BY <2>1, ToldOnce DEF Pending
  <2>3. IsFiniteSet(W)
    BY ActorSets
  <2> HIDE DEF W
  <2>4. IsFiniteSet(W \cup {a}) /\ Cardinality(W \cup {a}) = Cardinality(W) + 1
    BY <2>2, <2>3, FS_AddElement
  <2>5. W \cup {a} \subseteq Pending(act, n)
    BY DEF W
  <2>6. Cardinality(W \cup {a}) <= P
    BY <2>5, ActorSets, FS_Subset
  <2>7. QED
    BY <2>4, <2>6 DEF W
<1>4. IF RowFor(n) \in p THEN In(s, n) + P <= A + f ELSE In(s, n) <= T + f
  BY DEF Counted
<1> HIDE DEF T, U, P, Q, A
<1>5. IF RowFor(n) \in p THEN In(t, n) + Q <= A + f ELSE In(t, n) <= U + f
  BY <1>1, <1>2, <1>3, <1>4
<1>6. QED
  BY <1>5 DEF Counted, U, Q, A

\* The row is marked: those who told and those who have still to are different
\* actors, so together there are no more copies than actors.
LEMMA CountMarked ==
    ASSUME NEW n, NEW s, In(s, n) \in Nat, NEW p, NEW act, NEW new, NEW f \in Nat,
           Counted(s, p, act, f, n), NEW e,
           RowFor(n) # e => Tellers(act, n) \subseteq Tellers(new, n),
           Pending(new, n) \subseteq Pending(act, n)
    PROVE  Counted(s, p \cup {e}, new, f, n)
<1> DEFINE T == Cardinality(Tellers(act, n))
<1> DEFINE U == Cardinality(Tellers(new, n))
<1> DEFINE P == Cardinality(Pending(act, n))
<1> DEFINE Q == Cardinality(Pending(new, n))
<1> DEFINE A == Cardinality(Actors)
<1>1. /\ T \in Nat /\ U \in Nat /\ P \in Nat /\ Q \in Nat /\ A \in Nat
      /\ T + P <= A
  BY ActorSets
<1>2. RowFor(n) # e => T <= U
  BY ActorSets, FS_Subset
<1>3. Q <= P
  BY ActorSets, FS_Subset
<1>4. IF RowFor(n) \in p THEN In(s, n) + P <= A + f ELSE In(s, n) <= T + f
  BY DEF Counted
<1> HIDE DEF T, U, P, Q, A
<1>5. IF RowFor(n) \in p \cup {e} THEN In(s, n) + Q <= A + f ELSE In(s, n) <= U + f
  BY <1>1, <1>2, <1>3, <1>4
<1>6. QED
  BY <1>5 DEF Counted, U, Q, A

\* Where one actor moves, the others tell and have told as before.
LEMMA OthersTell ==
    ASSUME Types, NEW a \in Actors, NEW y, actors' = [actors EXCEPT ![a] = y], NEW n
    PROVE  /\ Tellers(actors, n) \subseteq Tellers(actors', n) \cup {a}
           /\ ((Told(actors[a], n) \/ actors[a] = Done) => (Told(y, n) \/ y = Done))
                 => Tellers(actors, n) \subseteq Tellers(actors', n)
           /\ (ToTell(y, n) => ToTell(actors[a], n))
                 => Pending(actors', n) \subseteq Pending(actors, n)
           /\ (a \in Tellers(actors', n) <=> (Told(y, n) \/ y = Done))
           /\ (a \in Pending(actors, n) <=> ToTell(actors[a], n))
<1>1. actors'[a] = y /\ \A b \in Actors \ {a} : actors'[b] = actors[b]
  BY DEF Types
<1>2. QED
  BY <1>1 DEF Tellers, Pending

\* A pc off the rows neither tells nor has told.
LEMMA OffRowTells ==
    ASSUME NEW x, x.pc \notin OnRow, NEW n
    PROVE  ~Told(x, n) /\ ~ToTell(x, n)
BY DEF Told, ToTell, OnRow

\* Before and after a step every notice is counted or can be.
LEMMA Countable ==
    ASSUME Types, CountInv, NEW n \in AllNotices
    PROVE  /\ In(sent, n) \in Nat /\ failures \in Nat
           /\ Counted(sent, published, actors, failures, n)
<1>1. In(sent, n) \in Nat
  BY RowsInTime DEF NoFewer
<1>2. QED
  BY <1>1, RowsInTime DEF CountInv

\* An actor at a statement is not done.
LEMMA NotDone ==
    ASSUME NEW x, x.pc # "done"
    PROVE  x # Done
BY DEF Done

\* The steps of an actor keep every notice counted.
LEMMA StepCount ==
    ASSUME Types, CountInv, NEW a \in Actors, AsideStep(a) \/ RowStep(a)
    PROVE  CountInv'
<1> USE DEF database
<1> SUFFICES ASSUME NEW n \in AllNotices
             PROVE  Counted(sent', published', actors', failures', n)
  BY DEF CountInv
<1>0. /\ In(sent, n) \in Nat /\ failures \in Nat
      /\ Counted(sent, published, actors, failures, n)
  BY Countable
<1>1. CASE AsideStep(a)
  <2>1. Aside(a)
    BY <1>1, StepsAside
  <2>2. PICK y : y.pc \notin OnRow /\ actors' = [actors EXCEPT ![a] = y]
    BY <2>1 DEF Aside
  <2>3. published' = published /\ sent' = sent /\ failures' = failures
        /\ actors[a].pc \notin OnRow /\ actors[a].pc # "done"
    BY <2>1 DEF Aside
  <2>4. ~Told(actors[a], n) /\ actors[a] # Done /\ ~ToTell(y, n)
    BY <2>2, <2>3, OffRowTells, NotDone
  <2>5. Tellers(actors, n) \subseteq Tellers(actors', n)
        /\ Pending(actors', n) \subseteq Pending(actors, n)
    BY <2>2, <2>4, OthersTell
  <2>6. Counted(sent, published, actors', failures, n)
    BY <1>0, <2>5, CountKept
  <2>7. QED
    BY <2>3, <2>6
<1>2. CASE ReserveEvent(a) /\ RowOf(a) \notin published
  <2>1. /\ TakenUp(a) /\ actors[a].pc \notin OnRow /\ actors[a].pc # "done"
        /\ UNCHANGED <<published, sent, failures>>
    BY <1>2, TakesUp
  <2>2. published' = published /\ sent' = sent /\ failures' = failures
    BY <2>1
  <2>3. PICK y : actors' = [actors EXCEPT ![a] = y] /\ RowIn(y) = RowOf(a)
    BY <2>1 DEF TakenUp
  <2>4. ~Told(actors[a], n) /\ actors[a] # Done
    BY <2>1, OffRowTells, NotDone
  <2>5. RowFor(n) \in published => ~ToTell(y, n)
    BY <1>2, <2>3 DEF ToTell
  <2>6. /\ Tellers(actors, n) \subseteq Tellers(actors', n)
        /\ RowFor(n) \in published => Pending(actors', n) \subseteq Pending(actors, n)
    BY <2>3, <2>4, <2>5, OthersTell
  <2>7. Counted(sent, published, actors', failures, n)
    BY <1>0, <2>6, CountKept
  <2>8. QED
    BY <2>2, <2>7
<1>3. CASE PublishNotice(a)
  <2>1. /\ actors[a].pc = "publish" /\ Within(a, "mark", actors[a].left)
        /\ IF Lecturers = {} THEN UNCHANGED sent ELSE Enqueue(Notice(RowOf(a), Everyone))
        /\ UNCHANGED <<published, failures>>
    BY <1>3, PublishMoves
  <2>2. published' = published /\ failures' = failures
    BY <2>1
  <2>3. PICK y : actors' = [actors EXCEPT ![a] = y] /\ RowIn(y) = RowOf(a) /\ y.pc = "mark"
    BY <2>1 DEF Within
  <2>4. Notice(RowOf(a), Everyone) \in AllNotices /\ RowOf(a) = RowIn(actors[a])
    BY <2>1, RowNotices DEF OnRow
  <2>5. ~Told(actors[a], n) /\ actors[a] # Done /\ ~ToTell(y, n)
    BY <2>1, <2>3, NotDone DEF Told, ToTell
  <2>6. /\ Tellers(actors, n) \subseteq Tellers(actors', n)
        /\ Pending(actors', n) \subseteq Pending(actors, n)
    BY <2>3, <2>5, OthersTell
  <2>7. CASE In(sent', n) = In(sent, n)
    <3>1. Counted(sent', published, actors', failures, n)
      BY <1>0, <2>6, <2>7, CountKept
    <3>2. QED
      BY <2>2, <3>1
  <2>8. CASE n = Notice(RowOf(a), Everyone) /\ In(sent', n) = In(sent, n) + 1
    <3>1. RowFor(n) = RowOf(a)
      BY <2>8 DEF Notice, RowFor, RowOf
    <3>2. ToTell(actors[a], n) /\ Told(y, n)
      BY <2>1, <2>3, <2>4, <3>1 DEF ToTell, Told
    <3>3. a \in Pending(actors, n) /\ a \in Tellers(actors', n)
      BY <2>3, <3>2, OthersTell
    <3>4. Counted(sent', published, actors', failures, n)
      BY <1>0, <2>6, <2>8, <3>3, CountTold
    <3>5. QED
      BY <2>2, <3>4
  <2>9. \/ In(sent', n) = In(sent, n)
        \/ n = Notice(RowOf(a), Everyone) /\ In(sent', n) = In(sent, n) + 1
    <3>1. CASE Lecturers = {}
      BY <2>1, <3>1
    <3>2. CASE Enqueue(Notice(RowOf(a), Everyone))
      BY <2>4, <3>2, EnqueuedIn
    <3>3. QED
      BY <2>1, <3>1, <3>2
  <2>10. QED
    BY <2>7, <2>8, <2>9
<1>4. ASSUME NEW l \in Lecturers, PublishSnapshot(a, l)
      PROVE  Counted(sent', published', actors', failures', n)
  <2>1. /\ actors[a].pc = "fan out" /\ l \in actors[a].left
        /\ Within(a, "fan out", actors[a].left \ {l})
        /\ \/ Enqueue(Notice(RowOf(a), l)) /\ UNCHANGED failures
           \/ failures < MaxFailures /\ failures' = failures + 1 /\ UNCHANGED sent
        /\ UNCHANGED published
    BY <1>4, SnapshotMoves
  <2>2. published' = published
    BY <2>1
  <2>3. PICK y : /\ actors' = [actors EXCEPT ![a] = y] /\ RowIn(y) = RowOf(a)
                 /\ y.pc = "fan out" /\ y.left = actors[a].left \ {l}
    BY <2>1 DEF Within
  <2>4. Notice(RowOf(a), l) \in AllNotices /\ RowOf(a) = RowIn(actors[a])
    BY <2>1, RowNotices DEF OnRow
  <2>5. /\ actors[a] # Done /\ (Told(actors[a], n) => Told(y, n))
        /\ (ToTell(y, n) => ToTell(actors[a], n))
    BY <2>1, <2>3, <2>4, NotDone DEF Told, ToTell
  <2>6. /\ Tellers(actors, n) \subseteq Tellers(actors', n)
        /\ Pending(actors', n) \subseteq Pending(actors, n)
    BY <2>3, <2>5, OthersTell
  <2>7. CASE In(sent', n) = In(sent, n) /\ failures' \in {failures, failures + 1}
    <3>1. failures' \in Nat /\ failures <= failures'
      BY <1>0, <2>7
    <3>2. Counted(sent', published, actors', failures', n)
      BY <1>0, <2>6, <2>7, <3>1, CountKept
    <3>3. QED
      BY <2>2, <3>2
  <2>8. CASE n = Notice(RowOf(a), l) /\ In(sent', n) = In(sent, n) + 1 /\ failures' = failures
    <3>1. RowFor(n) = RowOf(a) /\ n.to = l
      BY <2>8 DEF Notice, RowFor, RowOf
    <3>2. ToTell(actors[a], n) /\ Told(y, n)
      BY <2>1, <2>3, <2>4, <3>1 DEF ToTell, Told
    <3>3. a \in Pending(actors, n) /\ a \in Tellers(actors', n)
      BY <2>3, <3>2, OthersTell
    <3>4. Counted(sent', published, actors', failures, n)
      BY <1>0, <2>6, <2>8, <3>3, CountTold
    <3>5. QED
      BY <2>2, <2>8, <3>4
  <2>9. \/ In(sent', n) = In(sent, n) /\ failures' \in {failures, failures + 1}
        \/ n = Notice(RowOf(a), l) /\ In(sent', n) = In(sent, n) + 1 /\ failures' = failures
    <3>1. CASE Enqueue(Notice(RowOf(a), l)) /\ UNCHANGED failures
      BY <2>4, <3>1, EnqueuedIn
    <3>2. CASE failures' = failures + 1 /\ UNCHANGED sent
      BY <3>2
    <3>3. QED
      BY <2>1, <3>1, <3>2
  <2>10. QED
    BY <2>7, <2>8, <2>9
<1>5. CASE FanOutEnds(a)
  <2>1. /\ actors[a].pc = "fan out" /\ actors[a].left = {} /\ Within(a, "mark", {})
        /\ UNCHANGED <<published, sent, failures>>
    BY <1>5, FanOutMoves
  <2>2. published' = published /\ sent' = sent /\ failures' = failures
    BY <2>1
  <2>3. PICK y : actors' = [actors EXCEPT ![a] = y] /\ RowIn(y) = RowOf(a) /\ y.pc = "mark"
    BY <2>1 DEF Within
  <2>4. RowOf(a) = RowIn(actors[a])
    BY <2>1, RowNotices DEF OnRow
  <2>5. actors[a] # Done /\ (Told(actors[a], n) => Told(y, n)) /\ ~ToTell(y, n)
    BY <2>1, <2>3, <2>4, NotDone DEF Told, ToTell
  <2>6. /\ Tellers(actors, n) \subseteq Tellers(actors', n)
        /\ Pending(actors', n) \subseteq Pending(actors, n)
    BY <2>3, <2>5, OthersTell
  <2>7. Counted(sent, published, actors', failures, n)
    BY <1>0, <2>6, CountKept
  <2>8. QED
    BY <2>2, <2>7
<1>6. CASE MarkPublished(a)
  <2>1. /\ actors[a].pc = "mark" /\ Leaves(a)
        /\ published' = published \cup {RowOf(a)} /\ UNCHANGED <<sent, failures>>
    BY <1>6, MarkLeaves
  <2>2. sent' = sent /\ failures' = failures
    BY <2>1
  <2>3. PICK y : actors' = [actors EXCEPT ![a] = y] /\ y.pc \notin OnRow
    BY <2>1 DEF Leaves
  <2>4. RowOf(a) = RowIn(actors[a])
    BY <2>1, RowNotices DEF OnRow
  <2>5. /\ actors[a] # Done /\ ~ToTell(y, n)
        /\ (RowFor(n) # RowOf(a) => ~Told(actors[a], n))
    BY <2>1, <2>3, <2>4, OffRowTells, NotDone DEF Told
  <2>6. /\ RowFor(n) # RowOf(a) => Tellers(actors, n) \subseteq Tellers(actors', n)
        /\ Pending(actors', n) \subseteq Pending(actors, n)
    BY <2>3, <2>5, OthersTell
  <2>7. Counted(sent, published \cup {RowOf(a)}, actors', failures, n)
    BY <1>0, <2>6, CountMarked
  <2>8. QED
    BY <2>1, <2>2, <2>7
<1>7. CASE NoticeFails(a) \/ ActorFails(a)
  <2>1. Leaves(a) /\ failures' = failures + 1 /\ UNCHANGED <<published, sent>>
    BY <1>7, FailureLeaves
  <2>2. published' = published /\ sent' = sent
    BY <2>1
  <2>3. PICK y : actors' = [actors EXCEPT ![a] = y] /\ y.pc \notin OnRow
    BY <2>1 DEF Leaves
  <2>4. ~ToTell(y, n)
    BY <2>3, OffRowTells
  <2>5. /\ Tellers(actors, n) \subseteq Tellers(actors', n) \cup {a}
        /\ Pending(actors', n) \subseteq Pending(actors, n)
    BY <2>3, <2>4, OthersTell
  <2>6. Counted(sent, published, actors', failures + 1, n)
    BY <1>0, <2>5, CountFailed
  <2>7. QED
    BY <2>1, <2>2, <2>6
<1>8. QED
  BY <1>1, <1>2, <1>3, <1>4, <1>5, <1>6, <1>7 DEF RowStep

\* Every step does; a crash loses the scheduler alone, for the updates it cuts
\* off are over.
LEMMA NextCount == Types /\ CountInv /\ [Next]_vars => CountInv'
<1> SUFFICES ASSUME Types, CountInv, [Next]_vars PROVE CountInv'
  OBVIOUS
<1> USE DEF database
<1>1. CASE Crash
  <2> SUFFICES ASSUME NEW n \in AllNotices
               PROVE  Counted(sent', published', actors', failures', n)
    BY DEF CountInv
  <2>0. /\ In(sent, n) \in Nat /\ failures \in Nat
        /\ Counted(sent, published, actors, failures, n)
    BY Countable
  <2>1. /\ \A a \in Actors : actors'[a] \in {Idle, Done}
        /\ \A a \in Actors \ {Scheduler} : actors[a].pc # "idle" => actors'[a] = Done
        /\ failures' = failures + 1 /\ UNCHANGED <<published, sent>>
    BY <1>1, CrashLeaves
  <2>2. published' = published /\ sent' = sent
    BY <2>1
  <2>3. Idle.pc \notin OnRow /\ Done.pc \notin OnRow /\ Done.pc = "done"
    BY DEF Idle, Done, OnRow
  <2>4. \A a \in Actors : ~ToTell(actors'[a], n)
    BY <2>1, <2>3, OffRowTells
  <2>5. Pending(actors', n) \subseteq Pending(actors, n)
    BY <2>4 DEF Pending
  <2>6. Tellers(actors, n) \subseteq Tellers(actors', n) \cup {Scheduler}
    <3>1. ASSUME NEW a \in Actors \ {Scheduler}, Told(actors[a], n) \/ actors[a] = Done
          PROVE  actors'[a] = Done
      <4>1. actors[a].pc # "idle"
        BY <2>3, <3>1 DEF Told
      <4>2. QED
        BY <2>1, <4>1
    <3>2. QED
      BY <3>1 DEF Tellers
  <2>7. Counted(sent, published, actors', failures + 1, n)
    BY <2>0, <2>5, <2>6, CountFailed
  <2>8. QED
    BY <2>1, <2>2, <2>7
<1>2. CASE NextDay
  BY <1>2 DEF NextDay, CountInv
<1>3. CASE CreateSchedule
  BY <1>3 DEF CreateSchedule, CountInv
<1>4. CASE UNCHANGED vars
  BY <1>4 DEF vars, CountInv
<1>5. QED
  BY <1>1, <1>2, <1>3, <1>4, EveryStep, StepCount

\* At first there are no copies.
LEMMA InitCount == Init => CountInv
<1> SUFFICES ASSUME Init, NEW n \in AllNotices
             PROVE  Counted(sent, published, actors, failures, n)
  BY DEF CountInv
<1>1. In(sent, n) = 0 /\ published = {} /\ failures = 0
  BY DEF Init, In
<1>2. Cardinality(Tellers(actors, n)) \in Nat
  BY ActorSets
<1>3. QED
  BY <1>1, <1>2 DEF Counted

\* No notice has more copies than there are actors and failures.
LEMMA CountIsBounded == Types /\ CountInv => RepeatsBounded
<1> SUFFICES ASSUME Types, CountInv, NEW n \in DOMAIN sent
             PROVE  sent[n] <= Cardinality(Actors) + failures
  BY DEF RepeatsBounded
<1>1. n \in AllNotices /\ In(sent, n) = sent[n]
  BY DEF Types, In
<1>2. /\ In(sent, n) \in Nat /\ failures \in Nat
      /\ Counted(sent, published, actors, failures, n)
  BY <1>1, Countable
<1> DEFINE T == Cardinality(Tellers(actors, n))
<1> DEFINE P == Cardinality(Pending(actors, n))
<1> DEFINE A == Cardinality(Actors)
<1>3. T \in Nat /\ P \in Nat /\ A \in Nat /\ T + P <= A
  BY ActorSets
<1>4. IF RowFor(n) \in published THEN In(sent, n) + P <= A + failures
      ELSE In(sent, n) <= T + failures
  BY <1>2 DEF Counted
<1> HIDE DEF T, P, A
<1>5. In(sent, n) <= A + failures
  BY <1>2, <1>3, <1>4
<1>6. QED
  BY <1>1, <1>5 DEF A

\* However many checks and updates overlap, nobody gets a notice more often
\* than there are actors, plus once for each failure.
THEOREM RepeatsAreBounded == Spec => []RepeatsBounded
<1>1. Init => Types /\ CountInv
  BY InitTypes, InitCount
<1>2. Types /\ CountInv /\ [Next]_vars => (Types /\ CountInv)'
  BY NextTypes, NextCount
<1>3. QED
  BY <1>1, <1>2, CountIsBounded, PTL DEF Spec
==============================================================================
