---------------------------- MODULE TelegramLink ----------------------------
(***************************************************************************)
(* Connecting a Telegram chat to a user: the server hands out a code       *)
(* (ConnectTelegram of internal/handlers/auth.go) that is kept in Redis    *)
(* for a quarter of an hour, a chat sends it to the bot with /start, and   *)
(* HandleStart of internal/bot/bot.go writes the chat into the row of the  *)
(* user the code was made for.  The observer sends the alerts of a user to *)
(* the chat in this row.                                                   *)
(*                                                                         *)
(* The bot handles one update after another.  Telegram keeps an update     *)
(* until the bot asks for later ones, which may be before or after the bot *)
(* has handled it: a bot that stops loses updates or gets them again.      *)
(***************************************************************************)
EXTENDS Naturals, Sequences, FiniteSets

CONSTANTS
    User, Chat, Code,
    NoUser, NoChat, NoUpdate,
    RedisFails,     \* whether a command to Redis may fail
    DbFails,        \* whether a statement on the database may fail
    MaxSent         \* bound on the updates sent to the bot

Update == [from: Chat, code: Code]

ASSUME NoneAssumption == NoUser \notin User /\ NoChat \notin Chat /\ NoUpdate \notin Update
ASSUME FlagAssumption == {RedisFails, DbFails} \subseteq BOOLEAN
ASSUME BoundAssumption == MaxSent \in Nat

VARIABLES
    users,          \* rows of the table users
    chat,           \* chat_id of a user
    redis,          \* the user under the key telegram_codes:<code>
    inbox,          \* updates Telegram keeps for the bot
    fetched,        \* how many of them the bot has fetched
    updates,        \* updates fetched and not handled yet
    pc, update,     \* of HandleStart
    issued,         \* history: the user a code was made for
    sent,           \* history: updates sent so far
    presented,      \* history: codes a chat has sent
    connected       \* history: chats told "Successfully connected", by code

table == <<users, chat>>
telegram == <<inbox, fetched, updates>>
handler == <<pc, update>>
history == <<issued, sent, presented, connected>>
vars == <<table, redis, telegram, handler, history>>

TypeOK ==
    /\ users \in SUBSET User
    /\ chat \in [User -> Chat \cup {NoChat}]
    /\ redis \in [Code -> User \cup {NoUser}]
    /\ inbox \in Seq(Update)
    /\ fetched \in 0..Len(inbox)
    /\ updates \in Seq(Update)
    /\ pc \in {"idle", "get", "save", "del"}
    /\ update \in Update \cup {NoUpdate}
    /\ issued \in [Code -> users \cup {NoUser}]
    /\ sent \in 0..MaxSent
    /\ presented \in SUBSET (Chat \X Code)
    /\ connected \in [Code -> SUBSET Chat]
    /\ \A u \in User \ users : chat[u] = NoChat
    \* chat_id is UNIQUE
    /\ \A u, v \in users : chat[u] = chat[v] /\ chat[u] # NoChat => u = v

Init ==
    /\ users = {}
    /\ chat = [u \in User |-> NoChat]
    /\ redis = [k \in Code |-> NoUser]
    /\ inbox = <<>>
    /\ fetched = 0
    /\ updates = <<>>
    /\ pc = "idle"
    /\ update = NoUpdate
    /\ issued = [k \in Code |-> NoUser]
    /\ sent = 0
    /\ presented = {}
    /\ connected = [k \in Code |-> {}]

-----------------------------------------------------------------------------
(* The server.                                                             *)

(* Signup: the row of a new user, with an email address of its own.        *)
Signup(u) ==
    /\ u \notin users
    /\ users' = users \cup {u}
    /\ UNCHANGED <<chat, redis, telegram, handler, history>>

(* ConnectTelegram: SET of a new code; shortid makes none twice.           *)
ConnectTelegram(u, k) ==
    /\ u \in users
    /\ issued[k] = NoUser
    /\ redis' = [redis EXCEPT ![k] = u]
    /\ issued' = [issued EXCEPT ![k] = u]
    /\ UNCHANGED <<table, telegram, handler, sent, presented, connected>>

ExpireCode(k) ==
    /\ redis[k] # NoUser
    /\ redis' = [redis EXCEPT ![k] = NoUser]
    /\ UNCHANGED <<table, telegram, handler, history>>

-----------------------------------------------------------------------------
(* External: Telegram.                                                     *)

(* A chat sends /start with a code; whoever knows the link may.            *)
SendStart(c, k) ==
    /\ issued[k] # NoUser
    /\ sent < MaxSent
    /\ sent' = sent + 1
    /\ presented' = presented \cup {<<c, k>>}
    /\ inbox' = Append(inbox, [from |-> c, code |-> k])
    /\ UNCHANGED <<table, redis, fetched, updates, handler, issued, connected>>

(* The polling goroutine of the client library gets the next update ...    *)
Fetch ==
    /\ fetched < Len(inbox)
    /\ fetched' = fetched + 1
    /\ updates' = Append(updates, inbox[fetched + 1])
    /\ UNCHANGED <<table, redis, inbox, handler, history>>

(* ... and by asking for later ones makes Telegram forget what it got.     *)
Acknowledge ==
    /\ fetched > 0
    /\ inbox' = SubSeq(inbox, fetched + 1, Len(inbox))
    /\ fetched' = 0
    /\ UNCHANGED <<table, redis, updates, handler, history>>

-----------------------------------------------------------------------------
(* The bot: Start and HandleStart.                                         *)

(* Variants named ...Mutant are plausible errors in the definition after   *)
(* them; no specification uses them, and each breaks a property.           *)

Take ==
    /\ pc = "idle"
    /\ updates # <<>>
    /\ update' = Head(updates)
    /\ updates' = Tail(updates)
    /\ pc' = "get"
    /\ UNCHANGED <<table, redis, inbox, fetched, history>>

(* HandleStart returns, with a reply or an error.                          *)
Return == pc' = "idle" /\ update' = NoUpdate

(* GET of the code: the reply "Link doesn't exist or expired" is given for *)
(* an empty result, that of a failed command included.                     *)
GetCode ==
    /\ pc = "get"
    /\ \/ /\ redis[update.code] # NoUser
          /\ pc' = "save"
          /\ UNCHANGED update
       \/ /\ redis[update.code] = NoUser \/ RedisFails
          /\ Return
    /\ UNCHANGED <<table, redis, telegram, history>>

(* chat_id is not UNIQUE.                                                  *)
SaveSharedMutant ==
    /\ pc = "save"
    /\ chat' = [chat EXCEPT ![issued[update.code]] = update.from]
    /\ pc' = "del"
    /\ UNCHANGED <<users, redis, telegram, update, history>>

(* The UPDATE takes another row, or leaves chat_id out.                    *)
SaveChatMutant ==
    /\ pc = "save"
    /\ \E u \in users : chat' = [chat EXCEPT ![u] = update.from]
    /\ pc' = "del"
    /\ UNCHANGED <<users, redis, telegram, update, history>>
SaveNothingMutant ==
    /\ pc = "save"
    /\ pc' = "del"
    /\ UNCHANGED <<table, redis, telegram, update, history>>

(* GetUserByID and the UPDATE of the row of the user found by GET.  The    *)
(* code may have expired since; which user it was for is known by then.    *)
(* chat_id is UNIQUE: the reply for a chat another user has is "already    *)
(* connected", and the code stays.                                         *)
SaveChat ==
    LET u == issued[update.code] IN
    /\ pc = "save"
    /\ \/ /\ \A v \in users \ {u} : chat[v] # update.from
          /\ chat' = [chat EXCEPT ![u] = update.from]
          /\ pc' = "del"
          /\ UNCHANGED update
       \/ /\ DbFails \/ \E v \in users \ {u} : chat[v] = update.from
          /\ Return
          /\ UNCHANGED chat
    /\ UNCHANGED <<users, redis, telegram, history>>

(* The code is kept.                                                       *)
DeleteCodeMutant ==
    /\ pc = "del"
    /\ connected' = [connected EXCEPT ![update.code] = @ \cup {update.from}]
    /\ Return
    /\ UNCHANGED <<table, redis, telegram, issued, sent, presented>>

(* DEL of the code and the reply "Successfully connected".                 *)
DeleteCode ==
    /\ pc = "del"
    /\ redis' = [redis EXCEPT ![update.code] = NoUser]
    /\ connected' = [connected EXCEPT ![update.code] = @ \cup {update.from}]
    /\ Return
    /\ UNCHANGED <<table, telegram, issued, sent, presented>>

(* DEL fails: no reply, and the code stays.                                *)
DeleteFails ==
    /\ RedisFails
    /\ pc = "del"
    /\ Return
    /\ UNCHANGED <<table, redis, telegram, history>>

(* The process stops, and whenever it runs again fetches what Telegram     *)
(* still keeps.                                                            *)
StopBot ==
    /\ updates' = <<>>
    /\ fetched' = 0
    /\ Return
    /\ UNCHANGED <<table, redis, inbox, history>>

-----------------------------------------------------------------------------

ServerStep ==
    \E u \in User : Signup(u) \/ \E k \in Code : ConnectTelegram(u, k)

TelegramStep ==
    \/ \E c \in Chat, k \in Code : SendStart(c, k)
    \/ Fetch \/ Acknowledge

BotStep ==
    Take \/ GetCode \/ SaveChat \/ DeleteCode \/ DeleteFails \/ StopBot

Next ==
    \/ ServerStep \/ TelegramStep \/ BotStep
    \/ \E k \in Code : ExpireCode(k)

Spec == Init /\ [][Next]_vars

-----------------------------------------------------------------------------

(* The chat of a user has sent a code that was made for this very user,    *)
(* whatever is lost, delivered again or interrupted between the UPDATE and *)
(* the DEL: nobody gets the alerts of somebody else without that code.     *)
LinkedByOwnCode ==
    \A u \in User : chat[u] # NoChat =>
        \E k \in Code : issued[k] = u /\ <<chat[u], k>> \in presented

(* No two chats are told they are connected for the same code, although a  *)
(* code works again until its DEL.                                         *)
CodeConnectsOnce == \A k \in Code : Cardinality(connected[k]) <= 1

(* A chat that was told it is connected gets the alerts of the user,       *)
(* unless another chat has ever sent a code of this user.                  *)
ConnectedGetsAlerts ==
    \A k \in Code : \A c \in connected[k] :
        \/ chat[issued[k]] = c
        \/ \E d \in Chat \ {c}, l \in Code : issued[l] = issued[k] /\ <<d, l>> \in presented
=============================================================================
