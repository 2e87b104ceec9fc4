------------------------- MODULE TelegramLinkProofs -------------------------
(***************************************************************************)
(* Theorems about TelegramLink, for any users, chats and codes and any     *)
(* number of updates, with every failure and stop of the bot.              *)
(***************************************************************************)
EXTENDS TelegramLink, TLAPS, FiniteSetTheorems

(* Sequences of updates: what is taken off the front or the back of one    *)
(* was in it before.                                                       *)
LEMMA UpdateSeqs ==
    ASSUME NEW s \in Seq(Update)
    PROVE  /\ s # <<>> => /\ Head(s) \in Update /\ Head(s) = s[1] /\ 1 \in DOMAIN s
                          /\ Tail(s) \in Seq(Update)
                          /\ \A i \in DOMAIN Tail(s) : i + 1 \in DOMAIN s /\ Tail(s)[i] = s[i + 1]
           /\ \A m \in Update : /\ Append(s, m) \in Seq(Update)
                                /\ Len(Append(s, m)) = Len(s) + 1
                                /\ \A i \in DOMAIN Append(s, m) :
                                     \/ i \in DOMAIN s /\ Append(s, m)[i] = s[i]
                                     \/ Append(s, m)[i] = m
           /\ \A n \in 0..Len(s) :
                /\ SubSeq(s, n + 1, Len(s)) \in Seq(Update)
                /\ \A i \in DOMAIN SubSeq(s, n + 1, Len(s)) :
                     i + n \in DOMAIN s /\ SubSeq(s, n + 1, Len(s))[i] = s[i + n]
OBVIOUS

(* HandleStart has an update while it runs.                                *)
TypeInv == TypeOK /\ (pc # "idle" => update \in Update)

LEMMA TypeInit == Init => TypeInv
BY BoundAssumption DEF Init, TypeInv, TypeOK

LEMMA TypeStep == TypeInv /\ [Next]_vars => TypeInv'
<1> SUFFICES ASSUME TypeInv, [Next]_vars PROVE TypeInv'
  OBVIOUS
<1> USE DEF TypeInv, TypeOK, table, telegram, handler, history
<1>1. ASSUME NEW u \in User, Signup(u) PROVE TypeInv'
  BY <1>1 DEF Signup
<1>2. ASSUME NEW u \in User, NEW k \in Code, ConnectTelegram(u, k) PROVE TypeInv'
  BY <1>2 DEF ConnectTelegram
<1>3. ASSUME NEW k \in Code, ExpireCode(k) PROVE TypeInv'
  BY <1>3 DEF ExpireCode
<1>4. ASSUME NEW c \in Chat, NEW k \in Code, SendStart(c, k) PROVE TypeInv'
  <2>1. [from |-> c, code |-> k] \in Update
    BY DEF Update
  <2>2. inbox' \in Seq(Update) /\ Len(inbox') = Len(inbox) + 1
    BY <1>4, <2>1, UpdateSeqs DEF SendStart
  <2>3. fetched \in 0..Len(inbox')
    BY <2>2
  <2>4. sent' \in 0..MaxSent
    BY <1>4, BoundAssumption DEF SendStart
  <2> QED
    BY <1>4, <2>2, <2>3, <2>4 DEF SendStart
<1>5. CASE Fetch
  <2>1. fetched + 1 \in 1..Len(inbox)
    BY <1>5 DEF Fetch
  <2>2. inbox[fetched + 1] \in Update
    BY <2>1
  <2>3. updates' \in Seq(Update)
    BY <1>5, <2>2, UpdateSeqs DEF Fetch
  <2> QED
    BY <1>5, <2>1, <2>3 DEF Fetch
<1>6. CASE Acknowledge
  <2>1. inbox' \in Seq(Update)
    BY <1>6, UpdateSeqs DEF Acknowledge
  <2>2. 0 \in 0..Len(inbox')
    BY <2>1
  <2> QED
    BY <1>6, <2>1, <2>2 DEF Acknowledge
<1>7. CASE Take
  <2>1. update' \in Update /\ updates' \in Seq(Update)
    BY <1>7, UpdateSeqs DEF Take
  <2> QED
    BY <1>7, <2>1 DEF Take
<1>8. CASE GetCode
  BY <1>8 DEF GetCode, Return
<1>9. CASE SaveChat
  <2> DEFINE u == issued[update.code]
  <2>1. update.code \in Code /\ update.from \in Chat /\ u \in users \cup {NoUser}
    BY <1>9 DEF SaveChat, Update
  <2>2. chat' = chat \/ (u \in users /\ chat' = [chat EXCEPT ![u] = update.from])
    BY <1>9, <2>1, NoneAssumption DEF SaveChat
  <2>3. chat' # chat => \A v \in users \ {u} : chat[v] # update.from
    BY <1>9 DEF SaveChat
  <2>4. /\ chat' \in [User -> Chat \cup {NoChat}]
        /\ \A v \in User \ users : chat'[v] = NoChat
        /\ \A v, w \in users : chat'[v] = chat'[w] /\ chat'[v] # NoChat => v = w
    <3>1. CASE chat' = chat
      BY <3>1
    <3>2. CASE chat' # chat
      <4> HIDE DEF u
      <4>1. u \in users /\ u \in User /\ chat' = [chat EXCEPT ![u] = update.from]
        BY <2>2, <3>2
      <4>2. \A v \in users \ {u} : v \in User /\ chat'[v] = chat[v] /\ chat'[v] # update.from
        BY <2>3, <3>2, <4>1
      <4>3. chat'[u] = update.from
        BY <4>1
      <4>4. \A v \in User \ users : chat'[v] = chat[v]
        BY <4>1
      <4> QED
        BY <2>1, <4>1, <4>2, <4>3, <4>4
    <3> QED
      BY <3>1, <3>2
  <2> QED
    BY <1>9, <2>4 DEF SaveChat, Return
<1>10. CASE DeleteCode
  <2>1. connected' \in [Code -> SUBSET Chat]
    BY <1>10 DEF DeleteCode, Update
  <2>2. redis' \in [Code -> User \cup {NoUser}]
    BY <1>10 DEF DeleteCode
  <2> QED
    BY <1>10, <2>1, <2>2 DEF DeleteCode, Return
<1>11. CASE DeleteFails
  BY <1>11 DEF DeleteFails, Return
<1>12. CASE StopBot
  BY <1>12 DEF StopBot, Return
<1>13. CASE UNCHANGED vars
  BY <1>13 DEF vars
<1> QED
  BY <1>1, <1>2, <1>3, <1>4, <1>5, <1>6, <1>7, <1>8, <1>9, <1>10, <1>11, <1>12, <1>13
  DEF Next, ServerStep, TelegramStep, BotStep

(* Every variable keeps its type.                                          *)
THEOREM TypeCorrect == Spec => []TypeOK
<1>1. TypeInv => TypeOK
  BY DEF TypeInv
<1> QED
  BY <1>1, TypeInit, TypeStep, PTL DEF Spec

-----------------------------------------------------------------------------
(* Every update, wherever it is, was sent by its chat with a code that was *)
(* made for somebody, and a code in Redis leads to who it was made for.    *)
Sent(m) == issued[m.code] \in User /\ <<m.from, m.code>> \in presented

Values(s) == {s[i] : i \in DOMAIN s}

Held == Values(inbox) \cup Values(updates) \cup (IF pc = "idle" THEN {} ELSE {update})

UpdatesSent == \A m \in Held : Sent(m)

CodesIssued == \A k \in Code : redis[k] # NoUser => redis[k] = issued[k]

LinkInv == UpdatesSent /\ CodesIssued /\ LinkedByOwnCode

LEMMA LinkInit == Init => LinkInv
<1> SUFFICES ASSUME Init PROVE LinkInv
  OBVIOUS
<1>1. Held = {}
  BY DEF Init, Held, Values
<1> QED
  BY <1>1 DEF Init, LinkInv, UpdatesSent, CodesIssued, LinkedByOwnCode

(* Codes and presentations only grow: what was sent stays sent.            *)
LEMMA HistoryGrows ==
    ASSUME TypeInv, [Next]_vars
    PROVE  /\ presented \subseteq presented'
           /\ \A k \in Code : issued[k] # NoUser => issued'[k] = issued[k]
<1> USE DEF TypeInv, TypeOK, table, telegram, handler, history
<1>1. ASSUME NEW u \in User, NEW k \in Code, ConnectTelegram(u, k)
      PROVE  /\ presented' = presented
             /\ \A l \in Code : issued[l] # NoUser => issued'[l] = issued[l]
  BY <1>1 DEF ConnectTelegram
<1>2. ASSUME NEW c \in Chat, NEW k \in Code, SendStart(c, k)
      PROVE  presented \subseteq presented' /\ issued' = issued
  BY <1>2 DEF SendStart
<1>3. ASSUME NEW u \in User, Signup(u) PROVE presented' = presented /\ issued' = issued
  BY <1>3 DEF Signup
<1>4. CASE BotStep \/ Fetch \/ Acknowledge \/ UNCHANGED vars
  BY <1>4 DEF BotStep, Fetch, Acknowledge, Take, GetCode, SaveChat, DeleteCode, DeleteFails,
              StopBot, vars
<1>5. ASSUME NEW k \in Code, ExpireCode(k) PROVE presented' = presented /\ issued' = issued
  BY <1>5 DEF ExpireCode
<1> QED
  BY <1>1, <1>2, <1>3, <1>4, <1>5 DEF Next, ServerStep, TelegramStep

LEMMA SentStays ==
    ASSUME TypeInv, [Next]_vars, NEW m \in Update, Sent(m) PROVE Sent(m)'
<1>1. m.code \in Code
  BY DEF Update
<1>2. issued[m.code] # NoUser
  BY NoneAssumption DEF Sent
<1> QED
  BY <1>1, <1>2, HistoryGrows DEF Sent

LEMMA HeldUpdates == TypeInv => Held \subseteq Update
<1> SUFFICES ASSUME TypeInv PROVE Held \subseteq Update
  OBVIOUS
<1>1. Values(inbox) \subseteq Update /\ Values(updates) \subseteq Update
  BY DEF TypeInv, TypeOK, Values
<1> QED
  BY <1>1 DEF Held, TypeInv

LEMMA UpdatesSentStep == TypeInv /\ UpdatesSent /\ [Next]_vars => UpdatesSent'
<1> SUFFICES ASSUME TypeInv, UpdatesSent, [Next]_vars PROVE UpdatesSent'
  OBVIOUS
<1>a. inbox \in Seq(Update) /\ updates \in Seq(Update) /\ fetched \in 0..Len(inbox)
  BY DEF TypeInv, TypeOK
(* Nothing new is held.                                                    *)
<1>b. ASSUME Held' \subseteq Held PROVE UpdatesSent'
  <2>1. \A m \in Held' : m \in Update /\ Sent(m)
    BY <1>b, HeldUpdates DEF UpdatesSent
  <2>2. \A m \in Update : Sent(m) => Sent(m)'
    BY SentStays
  <2> QED
    BY <2>1, <2>2 DEF UpdatesSent
<1>1. ASSUME inbox' = inbox, updates' = updates, pc' # "idle" => pc # "idle" /\ update' = update
      PROVE  UpdatesSent'
  BY <1>1, <1>b DEF Held, Values
<1>2. ASSUME NEW c \in Chat, NEW k \in Code, SendStart(c, k) PROVE UpdatesSent'
  <2> DEFINE m == [from |-> c, code |-> k]
  <2>1. m \in Update /\ m.code = k /\ m.from = c
    BY DEF Update
  <2>2. Values(inbox') \subseteq Values(inbox) \cup {m}
    BY <1>2, <1>a, <2>1, UpdateSeqs DEF SendStart, Values
  <2>3. updates' = updates /\ pc' = pc /\ update' = update /\ issued' = issued
    BY <1>2 DEF SendStart, handler
  <2>4. Held' \subseteq Held \cup {m}
    BY <2>2, <2>3 DEF Held, Values
  <2>5. Sent(m)'
    BY <1>2, <2>1, <2>3, NoneAssumption DEF Sent, SendStart, TypeInv, TypeOK
  <2>6. \A n \in Held : n \in Update /\ Sent(n)
    BY HeldUpdates DEF UpdatesSent
  <2>7. \A n \in Update : Sent(n) => Sent(n)'
    BY SentStays
  <2> QED
    BY <2>4, <2>5, <2>6, <2>7 DEF UpdatesSent
<1>3. CASE Fetch
  <2>1. fetched + 1 \in DOMAIN inbox
    BY <1>3, <1>a DEF Fetch
  <2>2. inbox[fetched + 1] \in Update
    BY <1>a, <2>1
  <2>3. Values(updates') \subseteq Values(updates) \cup {inbox[fetched + 1]}
    BY <1>3, <1>a, <2>2, UpdateSeqs DEF Fetch, Values
  <2>4. inbox[fetched + 1] \in Values(inbox)
    BY <2>1 DEF Values
  <2>5. inbox' = inbox /\ pc' = pc /\ update' = update
    BY <1>3 DEF Fetch, handler
  <2>6. Held' \subseteq Held
    BY <2>3, <2>4, <2>5 DEF Held, Values
  <2> QED
    BY <1>b, <2>6
<1>4. CASE Acknowledge
  <2>1. Values(inbox') \subseteq Values(inbox)
    BY <1>4, <1>a, UpdateSeqs DEF Acknowledge, Values
  <2>2. updates' = updates /\ pc' = pc /\ update' = update
    BY <1>4 DEF Acknowledge, handler
  <2>3. Held' \subseteq Held
    BY <2>1, <2>2 DEF Held, Values
  <2> QED
    BY <1>b, <2>3
<1>5. CASE Take
  <2>1. Values(updates') \subseteq Values(updates) /\ update' \in Values(updates)
    BY <1>5, <1>a, UpdateSeqs DEF Take, Values
  <2>2. inbox' = inbox /\ pc' = "get"
    BY <1>5 DEF Take
  <2>3. Held' \subseteq Held
    BY <2>1, <2>2 DEF Held, Values
  <2> QED
    BY <1>b, <2>3
<1>6. CASE StopBot
  <2>1. inbox' = inbox /\ updates' = <<>> /\ pc' = "idle"
    BY <1>6 DEF StopBot, Return
  <2>2. Held' \subseteq Held
    BY <2>1 DEF Held, Values
  <2> QED
    BY <1>b, <2>2
<1>7. CASE GetCode \/ SaveChat \/ DeleteCode \/ DeleteFails
  BY <1>1, <1>7 DEF GetCode, SaveChat, DeleteCode, DeleteFails, Return, telegram
<1>8. CASE ServerStep \/ (\E k \in Code : ExpireCode(k)) \/ UNCHANGED vars
  BY <1>1, <1>8 DEF ServerStep, Signup, ConnectTelegram, ExpireCode, telegram, handler, vars
<1> QED
  BY <1>2, <1>3, <1>4, <1>5, <1>6, <1>7, <1>8 DEF Next, TelegramStep, BotStep

LEMMA CodesIssuedStep == TypeInv /\ CodesIssued /\ [Next]_vars => CodesIssued'
<1> SUFFICES ASSUME TypeInv, CodesIssued, [Next]_vars PROVE CodesIssued'
  OBVIOUS
<1> USE DEF CodesIssued, TypeInv, TypeOK, table, telegram, handler, history
<1>1. ASSUME NEW u \in User, NEW k \in Code, ConnectTelegram(u, k) PROVE CodesIssued'
  BY <1>1 DEF ConnectTelegram
<1>2. ASSUME NEW k \in Code, ExpireCode(k) PROVE CodesIssued'
  BY <1>2 DEF ExpireCode
<1>3. CASE DeleteCode
  BY <1>3 DEF DeleteCode
<1>4. ASSUME redis' = redis, issued' = issued PROVE CodesIssued'
  BY <1>4
<1>5. CASE TelegramStep \/ (\E u \in User : Signup(u)) \/ UNCHANGED vars
  BY <1>4, <1>5 DEF TelegramStep, SendStart, Fetch, Acknowledge, Signup, vars
<1>6. CASE Take \/ GetCode \/ SaveChat \/ DeleteFails \/ StopBot
  BY <1>4, <1>6 DEF Take, GetCode, SaveChat, DeleteFails, StopBot
<1> QED
  BY <1>1, <1>2, <1>3, <1>5, <1>6 DEF Next, ServerStep, BotStep

(* HandleStart is the only one to write the row of a user.                 *)
LEMMA ChatKept ==
    ASSUME TypeInv, [Next]_vars, ~SaveChat PROVE chat' = chat
BY DEF Next, ServerStep, TelegramStep, BotStep, Signup, ConnectTelegram, ExpireCode, SendStart,
       Fetch, Acknowledge, Take, GetCode, DeleteCode, DeleteFails, StopBot, vars, table

(* The chat of a user was written for an update that was sent.             *)
LEMMA LinkedStep == TypeInv /\ LinkInv /\ [Next]_vars => LinkedByOwnCode'
<1> SUFFICES ASSUME TypeInv, LinkInv, [Next]_vars, NEW u \in User, chat'[u] # NoChat
             PROVE  \E k \in Code : issued'[k] = u /\ <<chat'[u], k>> \in presented'
  BY DEF LinkedByOwnCode
<1>1. ASSUME chat'[u] = chat[u] PROVE \E k \in Code : issued'[k] = u /\ <<chat'[u], k>> \in presented'
  <2>1. PICK k \in Code : issued[k] = u /\ <<chat[u], k>> \in presented
    BY <1>1 DEF LinkInv, LinkedByOwnCode
  <2> QED
    BY <1>1, <2>1, HistoryGrows, NoneAssumption
<1>2. CASE SaveChat
  <2>1. CASE chat'[u] # chat[u]
    <3>1. u = issued[update.code] /\ chat'[u] = update.from /\ pc # "idle"
      BY <1>2, <2>1 DEF SaveChat, TypeInv, TypeOK
    <3>2. update \in Update /\ Sent(update)
      BY <3>1, HeldUpdates DEF LinkInv, UpdatesSent, Held
    <3>3. update.code \in Code
      BY <3>2 DEF Update
    <3> QED
      BY <3>1, <3>2, <3>3, HistoryGrows, NoneAssumption DEF Sent
  <2> QED
    BY <1>1, <2>1
<1>3. CASE ~SaveChat
  BY <1>1, <1>3, ChatKept
<1> QED
  BY <1>2, <1>3

LEMMA LinkStep == TypeInv /\ LinkInv /\ [Next]_vars => LinkInv'
BY UpdatesSentStep, CodesIssuedStep, LinkedStep DEF LinkInv

(* Nobody gets the alerts of a user without a code that was made for this  *)
(* very user, whatever Telegram loses or repeats and wherever the bot      *)
(* stops.                                                                  *)
THEOREM OwnCodesOnly == Spec => []LinkedByOwnCode
<1>1. LinkInv => LinkedByOwnCode
  BY DEF LinkInv
<1>2. TypeInv /\ LinkInv /\ [Next]_vars => (TypeInv /\ LinkInv)'
  BY TypeStep, LinkStep
<1> QED
  BY <1>1, <1>2, TypeInit, LinkInit, PTL DEF Spec

-----------------------------------------------------------------------------
(* A code that has connected a chat is gone from Redis for good, and       *)
(* HandleStart, which handles one update after another, is not about to    *)
(* use it.                                                                 *)
UsedCodes ==
    \A k \in Code : connected[k] # {} =>
        /\ issued[k] # NoUser /\ redis[k] = NoUser
        /\ ~(pc \in {"save", "del"} /\ update.code = k)
        /\ \E c \in Chat : connected[k] = {c}

LEMMA UsedCodesStep == TypeInv /\ LinkInv /\ UsedCodes /\ [Next]_vars => UsedCodes'
<1> SUFFICES ASSUME TypeInv, LinkInv, UsedCodes, [Next]_vars, NEW k \in Code, connected'[k] # {}
             PROVE  /\ issued'[k] # NoUser /\ redis'[k] = NoUser
                    /\ ~(pc' \in {"save", "del"} /\ update'.code = k)
                    /\ \E c \in Chat : connected'[k] = {c}
  BY DEF UsedCodes
<1> USE DEF TypeInv, TypeOK, table, telegram, handler, history
<1>1. ASSUME connected' = connected, redis'[k] = redis[k] \/ redis'[k] = NoUser \/ issued[k] = NoUser,
             issued[k] # NoUser => issued'[k] = issued[k],
             pc' \in {"save", "del"} =>
               update' = update /\ (pc \in {"save", "del"} \/ redis[update.code] # NoUser)
      PROVE  /\ issued'[k] # NoUser /\ redis'[k] = NoUser
             /\ ~(pc' \in {"save", "del"} /\ update'.code = k)
             /\ \E c \in Chat : connected'[k] = {c}
  BY <1>1 DEF UsedCodes
<1>2. CASE DeleteCode
  <2>1. /\ update \in Update /\ update.code \in Code /\ update.from \in Chat /\ Sent(update)
        /\ pc' = "idle"
    BY <1>2, HeldUpdates DEF DeleteCode, Return, Update, LinkInv, UpdatesSent, Held
  <2>2. issued'[k] = issued[k]
    BY <1>2 DEF DeleteCode
  <2>3. CASE k = update.code
    <3>1. connected[k] = {}
      BY <1>2, <2>3 DEF DeleteCode, UsedCodes
    <3>2. connected'[k] = {update.from} /\ redis'[k] = NoUser
      BY <1>2, <2>1, <2>3, <3>1 DEF DeleteCode
    <3> QED
      BY <2>1, <2>2, <2>3, <3>2, NoneAssumption DEF Sent
  <2>4. CASE k # update.code
    <3>1. connected'[k] = connected[k] /\ redis'[k] = redis[k]
      BY <1>2, <2>1, <2>4 DEF DeleteCode
    <3> QED
      BY <2>1, <2>2, <3>1 DEF UsedCodes
  <2> QED
    BY <2>3, <2>4
<1>3. ASSUME NEW u \in User, NEW l \in Code, ConnectTelegram(u, l)
      PROVE  /\ connected' = connected /\ pc' = pc /\ update' = update
             /\ redis'[k] = redis[k] \/ issued[k] = NoUser
             /\ issued[k] # NoUser => issued'[k] = issued[k]
  BY <1>3 DEF ConnectTelegram
<1>4. CASE \E u \in User, l \in Code : ConnectTelegram(u, l)
  BY <1>1, <1>3, <1>4
<1>5. ASSUME NEW l \in Code, ExpireCode(l)
      PROVE  /\ connected' = connected /\ pc' = pc /\ update' = update /\ issued' = issued
             /\ redis'[k] \in {redis[k], NoUser}
  BY <1>5 DEF ExpireCode
<1>6. CASE \E l \in Code : ExpireCode(l)
  BY <1>1, <1>5, <1>6
<1>7. CASE TelegramStep \/ (\E u \in User : Signup(u)) \/ UNCHANGED vars
  <2>1. connected' = connected /\ redis' = redis /\ issued' = issued /\ pc' = pc /\ update' = update
    BY <1>7 DEF TelegramStep, SendStart, Fetch, Acknowledge, Signup, vars
  <2> QED
    BY <1>1, <2>1
<1>8. CASE Take \/ GetCode \/ SaveChat \/ DeleteFails \/ StopBot
  <2>1. /\ connected' = connected /\ redis' = redis /\ issued' = issued
        /\ pc' \in {"save", "del"} =>
             update' = update /\ (pc \in {"save", "del"} \/ redis[update.code] # NoUser)
    BY <1>8 DEF Take, GetCode, SaveChat, DeleteFails, StopBot, Return
  <2> QED
    BY <1>1, <2>1
<1> QED
  BY <1>2, <1>4, <1>6, <1>7, <1>8 DEF Next, ServerStep, BotStep

(* A code connects one chat at most.                                       *)
THEOREM CodesConnectOnce == Spec => []CodeConnectsOnce
<1>1. Init => UsedCodes
  BY DEF Init, UsedCodes
<1>2. UsedCodes => CodeConnectsOnce
  <2> SUFFICES ASSUME UsedCodes, NEW k \in Code PROVE Cardinality(connected[k]) <= 1
    BY DEF CodeConnectsOnce
  <2>1. CASE connected[k] = {}
    BY <2>1, FS_EmptySet
  <2>2. CASE connected[k] # {}
    <3>1. PICK c \in Chat : connected[k] = {c}
      BY <2>2 DEF UsedCodes
    <3> QED
      BY <3>1, FS_Singleton
  <2> QED
    BY <2>1, <2>2
<1>3. TypeInv /\ LinkInv /\ UsedCodes /\ [Next]_vars => (TypeInv /\ LinkInv /\ UsedCodes)'
  BY TypeStep, LinkStep, UsedCodesStep
<1> QED
  BY <1>1, <1>2, <1>3, TypeInit, LinkInit, PTL DEF Spec

-----------------------------------------------------------------------------
(* Between the UPDATE and the DEL the chat in the row is that of the       *)
(* update, since no other call writes it.                                  *)
Saved == pc = "del" => chat[issued[update.code]] = update.from

LEMMA SavedStep == TypeInv /\ LinkInv /\ Saved /\ [Next]_vars => Saved'
<1> SUFFICES ASSUME TypeInv, LinkInv, Saved, [Next]_vars, pc' = "del"
             PROVE  chat'[issued'[update'.code]] = update'.from
  BY DEF Saved
<1>1. CASE SaveChat
  <2>1. update' = update /\ issued' = issued /\ pc = "save"
        /\ chat' = [chat EXCEPT ![issued[update.code]] = update.from]
    BY <1>1 DEF SaveChat, Return, history
  <2>2. issued[update.code] \in User
    BY <2>1, HeldUpdates DEF LinkInv, UpdatesSent, Held, Sent
  <2> QED
    BY <2>1, <2>2 DEF TypeInv, TypeOK
<1>2. CASE ~SaveChat
  <2>1. chat' = chat
    BY <1>2, ChatKept
  <2>2. pc = "del" /\ update' = update
    BY <1>2 DEF Next, ServerStep, TelegramStep, BotStep, Signup, ConnectTelegram, ExpireCode,
       SendStart, Fetch, Acknowledge, Take, GetCode, DeleteCode, DeleteFails, StopBot, Return,
       vars, handler
  <2>3. update.code \in Code /\ issued[update.code] # NoUser
    BY <2>2, HeldUpdates, NoneAssumption DEF LinkInv, UpdatesSent, Held, Sent, Update, TypeInv
  <2> QED
    BY <2>1, <2>2, <2>3, HistoryGrows DEF Saved
<1> QED
  BY <1>1, <1>2

LEMMA ConnectedStep ==
    TypeInv /\ LinkInv /\ UsedCodes /\ Saved /\ ConnectedGetsAlerts /\ [Next]_vars
      => ConnectedGetsAlerts'
<1> SUFFICES ASSUME TypeInv, LinkInv, UsedCodes, Saved, ConnectedGetsAlerts, [Next]_vars,
                    NEW k \in Code, NEW c \in connected'[k]
             PROVE  \/ chat'[issued'[k]] = c
                    \/ \E d \in Chat \ {c}, l \in Code :
                          issued'[l] = issued'[k] /\ <<d, l>> \in presented'
  BY DEF ConnectedGetsAlerts
<1>1. CASE c \in connected[k]
  <2>1. issued[k] # NoUser /\ issued'[k] = issued[k]
    BY <1>1, HistoryGrows DEF UsedCodes
  <2>2. CASE \E d \in Chat \ {c}, l \in Code : issued[l] = issued[k] /\ <<d, l>> \in presented
    BY <2>1, <2>2, HistoryGrows
  <2>3. CASE chat[issued[k]] = c /\ chat'[issued[k]] = chat[issued[k]]
    BY <2>1, <2>3
  <2>4. CASE chat[issued[k]] = c /\ chat'[issued[k]] # chat[issued[k]]
    <3>1. SaveChat /\ pc = "save"
      BY <2>4, ChatKept DEF SaveChat
    <3>2. /\ issued[k] = issued[update.code] /\ chat'[issued[k]] = update.from
          /\ update \in Update /\ Sent(update)
      BY <2>1, <2>4, <3>1, HeldUpdates
      DEF SaveChat, LinkInv, UpdatesSent, Held, TypeInv, TypeOK
    <3>3. update.from \in Chat \ {c} /\ update.code \in Code
      BY <2>4, <3>2 DEF Update
    <3> QED
      BY <2>1, <3>2, <3>3, HistoryGrows DEF Sent
  <2> QED
    BY <1>1, <2>2, <2>3, <2>4 DEF ConnectedGetsAlerts
<1>2. CASE c \notin connected[k]
  <2>1. DeleteCode
    BY <1>2 DEF Next, ServerStep, TelegramStep, BotStep, Signup, ConnectTelegram, ExpireCode,
       SendStart, Fetch, Acknowledge, Take, GetCode, SaveChat, DeleteFails, StopBot, vars, history
  <2>2. k = update.code /\ c = update.from /\ chat' = chat /\ issued' = issued /\ pc = "del"
    BY <1>2, <2>1 DEF DeleteCode, table, TypeInv, TypeOK
  <2> QED
    BY <2>2 DEF Saved
<1> QED
  BY <1>1, <1>2

(* Whoever was told to be connected gets the alerts, unless another chat   *)
(* sends a code of the same user.                                          *)
THEOREM ConnectedGets == Spec => []ConnectedGetsAlerts
<1>1. Init => UsedCodes /\ Saved /\ ConnectedGetsAlerts
  BY DEF Init, UsedCodes, Saved, ConnectedGetsAlerts
<1> DEFINE I == TypeInv /\ LinkInv /\ UsedCodes /\ Saved /\ ConnectedGetsAlerts
<1>2. I /\ [Next]_vars => I'
  BY TypeStep, LinkStep, UsedCodesStep, SavedStep, ConnectedStep
<1>3. Init => I
  BY <1>1, TypeInit, LinkInit
<1>4. I => ConnectedGetsAlerts
  OBVIOUS
<1> HIDE DEF I
<1> QED
  BY <1>2, <1>3, <1>4, PTL DEF Spec
=============================================================================
