--------------------------- MODULE Notifications ---------------------------
(***************************************************************************)
(* The notification service: delivery of the messages of its queue and of  *)
(* the period notices it is asked to send directly                         *)
(* (notification_service/src/main.py), and the linking of a user's         *)
(* Telegram chat (main.py, notifiers/telegram.py and                       *)
(* repositories/user_notifications.py of the service; the Backend's        *)
(* writes of the same table).                                              *)
(*                                                                         *)
(* Every statement of the database and every send is one action.  Whether  *)
(* a send succeeds changes only the summary that is logged or answered, so *)
(* an attempt stands for both.                                             *)
(***************************************************************************)
EXTENDS Naturals, Sequences, FiniteSets, Functions, FiniteSetsExt, SequencesExt

CONSTANTS
    Users, Chats, NoChat,
    Mailed,             \* users with an address
    Messages,           \* of the notification queue, and bodies of
                        \* POST /internal/period-notifications/send
    Envelope,           \* of each message: [body, urls: BOOLEAN, recipients]
    StartRequests,      \* requests for a link, from tabs and devices
    TTL,                \* telegram_link_token_ttl_seconds
    NoticeBudgets,      \* bounds: [queue, direct] messages, how many [tokens,
                        \* logins, edits, seconds] there may be, and the fields
                        \* that development requests may have [given]
    MaxBreakdowns          \* bound

ASSUME NotificationsAssumption ==
    /\ NoChat \notin Chats
    /\ TTL \in Nat \ {0}
    /\ \A m \in Messages : Envelope[m].recipients \in Seq(Users)
    \* Every message is one delivery of the broker or one request.
    /\ \A b \in NoticeBudgets :
          /\ b.queue \in Seq(Messages) /\ IsInjective(b.queue)
          /\ b.direct \subseteq Messages \ Range(b.queue)
    /\ "none" \notin Messages
    /\ MaxBreakdowns \in Nat

Workers == {"consumer", "request"}
Resting == [message |-> "none", todo |-> << >>]

VARIABLES
    accounts,   \* user_notifications: [chat, token, enabled, mail, at] of each user
    second,     \* CURRENT_TIMESTAMP
    issued,     \* the [token, user] put in a row, in order: a token is the index
                \* of the first
    source,     \* (ghost) which of them put the token in each row
    starting,   \* link requests that have read the row and will set a token
    opened,     \* (ghost) [token, user, chat, write] of every link made by a token
    waiting,    \* the queue; its head stays until it is acknowledged
    asked,      \* direct messages not yet taken
    job,        \* what each worker is sending: [message, todo]
    planned,    \* (ghost) [user, channel] that a message was last found to need
    tried,      \* (ghost) how often [message, user, channel] was attempted
    taken,      \* (ghost) how often a message was taken
    fate,       \* (ghost) what became of a message: "finished", "unread", "dropped"
    budget,     \* what may still happen
    breakdowns     \* crashes, shutdowns and failed reads so far

linkVars == <<accounts, second, issued, source, starting, opened, budget>>
deliveryVars == <<waiting, asked, job, planned, tried, taken, fate>>
noticeVars == <<linkVars, deliveryVars, breakdowns>>

\* No row and a row with the table's defaults are the same to everybody here.
NoAccount == [chat |-> NoChat, token |-> 0, enabled |-> TRUE, mail |-> TRUE, at |-> 0]

NoticesInit ==
    /\ accounts = [u \in Users |-> NoAccount]
    /\ second = 0 /\ issued = << >> /\ opened = {} /\ budget \in NoticeBudgets
    /\ starting = [r \in StartRequests |-> {}] /\ source = [u \in Users |-> 0]
    /\ waiting = budget.queue /\ asked = budget.direct
    /\ job = [w \in Workers |-> Resting]
    /\ planned = << >> /\ tried = << >> /\ fate = << >>
    /\ taken = [m \in Messages |-> 0]
    /\ breakdowns = 0

Breakdown == breakdowns < MaxBreakdowns /\ breakdowns' = breakdowns + 1
Spend(what) == budget[what] > 0 /\ budget' = [budget EXCEPT ![what] = @ - 1]

------------------------------------------------------------------------------
(* Linking a chat *)

\* _is_token_expired: the process's clock against updated_at.
IsTokenExpired(account) == second > account.at + TTL

\* _build_link_status: the link a page shows.
HasActiveToken(account) == account.token # 0 /\ ~IsTokenExpired(account)

\* _ensure_link_token reads the row: a token that still works is shown again.
StartReads(r, u) ==
    /\ starting[r] = {}
    /\ ~HasActiveToken(accounts[u])
    /\ starting' = [starting EXCEPT ![r] = {u}]
    /\ UNCHANGED <<accounts, second, issued, source, opened, budget, deliveryVars, breakdowns>>

\* A token is put in the row of u.
Puts(u, token) ==
    /\ issued' = Append(issued, [token |-> token, user |-> u])
    /\ source' = [source EXCEPT ![u] = Len(issued) + 1]

NewToken == Len(issued) + 1

\* set_link_token, whatever the row has become since it was read.
StartSets(r) ==
    /\ Spend("tokens")
    /\ \E u \in starting[r] :
          /\ Puts(u, NewToken)
          /\ accounts' = [accounts EXCEPT
                ![u] = [@ EXCEPT !.token = NewToken, !.enabled = TRUE, !.at = second]]
    /\ starting' = [starting EXCEPT ![r] = {}]
    /\ UNCHANGED <<second, opened, deliveryVars, breakdowns>>

\* Mutant: the token is compared with the wrong bound.
TokenAcceptedStrictly(account, token) == account.token = token /\ account.at > second - TTL

\* The WHERE clause of link_chat_by_token.
TokenAccepted(account, token) == account.token = token /\ account.at + TTL >= second

Linked(account, chat) ==
    [account EXCEPT !.chat = chat, !.token = 0, !.enabled = TRUE, !.at = second]

Opening(u, token, chat) == [token |-> token, user |-> u, chat |-> chat, write |-> source[u]]

\* Mutant: the token stays in the row.
LinksByTokenAgain(token, chat) ==
    /\ \E u \in Users :
          /\ TokenAccepted(accounts[u], token)
          /\ accounts' = [accounts EXCEPT
                ![u] = [Linked(@, chat) EXCEPT !.token = token]]
          /\ opened' = opened \cup {Opening(u, token, chat)}
    /\ UNCHANGED <<second, issued, source, starting, budget, deliveryVars, breakdowns>>

\* handle_update of /start <token>: the update may come twice (Telegram repeats
\* it when the Backend's proxy answers 502), and anyone may open the link.
LinksByToken(token, chat) ==
    /\ \E u \in Users :
          /\ TokenAccepted(accounts[u], token)
          /\ accounts' = [accounts EXCEPT ![u] = Linked(@, chat)]
          /\ opened' = opened \cup {Opening(u, token, chat)}
    /\ UNCHANGED <<second, issued, source, starting, budget, deliveryVars, breakdowns>>

\* handle_update of /link <user_name> <user_id>
LinksByCredentials(u, chat) ==
    /\ Spend("logins")
    /\ accounts' = [accounts EXCEPT ![u] = Linked(@, chat)]
    /\ UNCHANGED <<second, issued, source, starting, opened, deliveryVars, breakdowns>>

BackendWrites(new) ==
    /\ Spend("edits")
    /\ accounts' = new
    /\ UNCHANGED <<second, issued, source, starting, opened, deliveryVars, breakdowns>>

\* _sync_phone_in_tx: a change of the phone number makes the row new again, and
\* with it the token that is in it.
PhoneChanges(u) == BackendWrites([accounts EXCEPT ![u].at = second])

\* What a development request may make of a row: each field as its body gives
\* it, or as it was.  The token may be one that was used, or one never seen.
WritableRows == [chat : Chats \cup {NoChat}, enabled : BOOLEAN, mail : BOOLEAN, at : {second},
         token : {issued[i].token : i \in DOMAIN issued} \cup {0, NewToken}]
UpsertedRows(u) ==
    {row \in WritableRows : \A field \in DOMAIN row \ {"at"} :
        field \in budget.given \/ row[field] = accounts[u][field]}

\* upsert_user_notification of the development route; no two rows have a token
\* (UNIQUE of the column).
DevUpserts(u, row) ==
    /\ Spend("edits")
    /\ row.token # 0 => \A v \in Users \ {u} : accounts[v].token # row.token
    /\ accounts' = [accounts EXCEPT ![u] = row]
    /\ IF row.token \in {0, accounts[u].token} THEN UNCHANGED <<issued, source>>
       ELSE Puts(u, row.token)
    /\ UNCHANGED <<second, starting, opened, deliveryVars, breakdowns>>

\* delete_user_notification
DevDeletesAccount(u) == BackendWrites([accounts EXCEPT ![u] = NoAccount])

\* clear_all_telegram_data
DevClearsTelegram ==
    BackendWrites([u \in Users |->
        IF accounts[u].chat # NoChat \/ accounts[u].token # 0
        THEN [accounts[u] EXCEPT !.chat = NoChat, !.token = 0, !.at = second]
        ELSE accounts[u]])

TimePasses ==
    /\ Spend("seconds")
    /\ second' = second + 1
    /\ UNCHANGED <<accounts, issued, source, starting, opened, deliveryVars, breakdowns>>

------------------------------------------------------------------------------
(* Delivery *)

\* The function f with a value for x.
With(f, x, value) == [y \in DOMAIN f \cup {x} |-> IF y = x THEN value ELSE f[y]]

Send(user, channel) == [user |-> user, channel |-> channel]
Profiles == Send("all", "profiles")     \* they are to be read first

\* _send_notification_message: the first of these that the message has.
FirstSteps(m) ==
    IF ~Envelope[m].body THEN << >>
    ELSE IF Envelope[m].urls THEN <<Send("all", "urls")>>
    ELSE IF Envelope[m].recipients # << >> THEN <<Profiles>>
    ELSE <<Send("all", "default")>>

Take(w, m) ==
    /\ job' = [job EXCEPT ![w] = [message |-> m, todo |-> FirstSteps(m)]]
    /\ taken' = [taken EXCEPT ![m] = @ + 1]
    /\ UNCHANGED <<linkVars, planned, tried, fate, breakdowns>>

\* The consumer takes the head, which stays in the queue for now.
Takes ==
    /\ job["consumer"] = Resting /\ waiting # << >>
    /\ Take("consumer", Head(waiting))
    /\ UNCHANGED <<waiting, asked>>

\* send_period_notification: nobody to send to is an error.
IsAsked(m) ==
    /\ job["request"] = Resting /\ m \in asked
    /\ Envelope[m].recipients # << >>
    /\ Take("request", m)
    /\ asked' = asked \ {m}
    /\ UNCHANGED waiting

\* can_send of the two notifiers, on what the query returned.
Channels(u) ==
    (IF accounts[u].enabled /\ accounts[u].chat # NoChat
     THEN <<Send(u, "telegram")>> ELSE << >>)
    \o (IF u \in Mailed /\ accounts[u].mail THEN <<Send(u, "email")>> ELSE << >>)

\* Mutant: a user named twice gets everything twice.
RecipientsAsNamed(m) == Envelope[m].recipients

\* list(dict.fromkeys(..)): the first of every user
Recipients(m) ==
    LET all == Envelope[m].recipients
        firsts[n \in 0 .. Len(all)] ==
          IF n = 0 THEN << >>
          ELSE IF Contains(firsts[n - 1], all[n]) THEN firsts[n - 1]
          ELSE Append(firsts[n - 1], all[n])
    IN  firsts[Len(all)]

\* get_delivery_profiles_for_users: one query, used until the last send.
ReadsProfiles(w) ==
    LET m == job[w].message IN
    /\ job[w].todo = <<Profiles>>
    /\ job' = [job EXCEPT ![w].todo =
          FlattenSeq([i \in DOMAIN Recipients(m) |-> Channels(Recipients(m)[i])])]
    /\ planned' = With(planned, m, UNION {Range(Channels(u)) : u \in Range(Envelope[m].recipients)})
    /\ UNCHANGED <<linkVars, waiting, asked, tried, taken, fate, breakdowns>>

\* One call of a notifier's send, whatever comes of it.
Attempt(m, s) == [message |-> m, send |-> s]
TriesOf(m, s) == IF Attempt(m, s) \in DOMAIN tried THEN tried[Attempt(m, s)] ELSE 0

\* Mutant: a user that one channel was tried for is done with.
SendsOnce(w) ==
    LET m == job[w].message IN
    /\ job[w].todo # << >> /\ Head(job[w].todo) # Profiles
    /\ LET s == Head(job[w].todo) IN
          /\ tried' = With(tried, Attempt(m, s), TriesOf(m, s) + 1)
          /\ job' = [job EXCEPT ![w].todo = SelectSeq(Tail(@), LAMBDA x : x.user # s.user)]
    /\ UNCHANGED <<linkVars, waiting, asked, planned, taken, fate, breakdowns>>

\* A channel that fails, or whose library raises, stops no other one.
SendsNext(w) ==
    LET m == job[w].message IN
    /\ job[w].todo # << >> /\ Head(job[w].todo) # Profiles
    /\ LET s == Head(job[w].todo) IN
          tried' = With(tried, Attempt(m, s), TriesOf(m, s) + 1)
    /\ job' = [job EXCEPT ![w].todo = Tail(@)]
    /\ UNCHANGED <<linkVars, waiting, asked, planned, taken, fate, breakdowns>>

Leave(w, what) ==
    /\ fate' = With(fate, job[w].message, what)
    /\ waiting' = IF w = "consumer" THEN Tail(waiting) ELSE waiting
    /\ job' = [job EXCEPT ![w] = Resting]
    /\ UNCHANGED <<asked, planned, tried, taken, linkVars>>

\* message.process() acknowledges; a request is answered.
FinishesMessage(w) ==
    /\ job[w] # Resting /\ job[w].todo = << >>
    /\ Leave(w, "finished")
    /\ UNCHANGED breakdowns

\* The query raises: logged, and acknowledged all the same.
ProfilesFail(w) ==
    /\ job[w].todo = <<Profiles>>
    /\ Breakdown
    /\ Leave(w, "unread")

\* The process dies: the broker keeps what was not acknowledged, requests are lost.
ServiceCrashes ==
    /\ Breakdown
    /\ job' = [w \in Workers |-> Resting]
    /\ starting' = [r \in StartRequests |-> {}]
    /\ UNCHANGED <<accounts, second, issued, source, opened, budget, waiting, asked,
                   planned, tried, taken, fate>>

\* The process is told to stop and has answered its requests: the consumer is
\* cancelled, and the message it is sending is rejected without requeueing.
ServiceStops ==
    /\ Breakdown
    /\ job["request"] = Resting /\ \A r \in StartRequests : starting[r] = {}
    /\ job["consumer"] # Resting
    /\ Leave("consumer", "dropped")

------------------------------------------------------------------------------
LinkStep ==
    \/ \E r \in StartRequests : (\E u \in Users : StartReads(r, u)) \/ StartSets(r)
    \/ \E chat \in Chats : \/ \E token \in DOMAIN issued : LinksByToken(token, chat)
                           \/ \E u \in Users : LinksByCredentials(u, chat)
    \/ \E u \in Users : \/ PhoneChanges(u) \/ DevDeletesAccount(u)
                        \/ \E row \in UpsertedRows(u) : DevUpserts(u, row)
    \/ DevClearsTelegram \/ TimePasses

DeliveryStep ==
    \/ Takes \/ \E m \in Messages : IsAsked(m)
    \/ \E w \in Workers :
          ReadsProfiles(w) \/ SendsNext(w) \/ FinishesMessage(w) \/ ProfilesFail(w)
    \/ ServiceCrashes \/ ServiceStops

NoticesNext == LinkStep \/ DeliveryStep

NoticesSpec == NoticesInit /\ [][NoticesNext]_noticeVars

------------------------------------------------------------------------------
(* Properties *)

\* The token was put in a row again after it was made.
WrittenBack(token) == \E i \in DOMAIN issued : i # token /\ issued[i].token = token

\* The link that a page shows as valid is accepted: the expiry computed by the
\* process and the one in the SQL of the webhook agree to the second, two requests
\* that each make a token leave one that works, and it is no other user's: unless
\* a development request wrote it to a row, it is there for the user it was made for.
ShownLinkWorks ==
    \A u \in Users : HasActiveToken(accounts[u]) =>
        LET token == accounts[u].token IN
        /\ TokenAccepted(accounts[u], token)
        /\ \A v \in Users \ {u} : accounts[v].token # token
        /\ issued[token].user = u \/ WrittenBack(token)

\* However often a link is opened, from however many chats, and however often
\* Telegram repeats its update, it links one chat for each time that its token was
\* put in a row, to that row's user: one chat in all, unless a development request
\* wrote the token back.
LinkOpensOnce ==
    \A o, p \in opened : /\ issued[o.write] = [token |-> o.token, user |-> o.user]
                         /\ o.write = p.write => o = p

\* A recipient hears a message again on a channel only because a crash made the
\* broker deliver it again.
RepeatsNeedACrash ==
    /\ \A a \in DOMAIN tried : tried[a] <= taken[a.message]
    /\ \A m \in DOMAIN taken : taken[m] <= 1 + breakdowns

\* A message that was acknowledged, or a request that was answered, has been
\* tried on every channel its recipients had when their profiles were read,
\* unless that read failed or the service was stopped meanwhile.
FinishedWasTried ==
    \A m \in DOMAIN fate : fate[m] = "finished" /\ m \in DOMAIN planned =>
        \A s \in planned[m] : TriesOf(m, s) > 0

=============================================================================
