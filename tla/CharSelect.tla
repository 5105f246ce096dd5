----------------------------- MODULE CharSelect ------------------------------
(***************************************************************************)
(* The char-select process (src/char_select): clients that arrive with a   *)
(* session key and the auths the login server sends for the keys, matched  *)
(* in whichever order they come; the queries of the character screen; the  *)
(* requests to zone in, which the master answers or a timer gives up; and  *)
(* the connection to the login server.  One thread runs the main loop: each*)
(* handler, timer callback and database callback is one step.  A client is *)
(* kept by reference counts: one for the connection, one for each query,   *)
(* one for each zone-in timer.  A player sends LoginInfo once and uses the *)
(* character screen when it is shown, one operation at a time.             *)
(***************************************************************************)
EXTENDS Integers, Sequences, FiniteSets

CONSTANTS
    Clients,        \* the UDP connections
    Keys,           \* the session keys
    Accounts,       \* the accounts, each with one name_id_pair row at most
    KeyOf,          \* the key each client presents
    AccountOfKey,   \* the account each key was issued for
    Names,          \* character names
    NoAccount,      \* no row id yet
    MaxEnters       \* bound: how often a client asks to zone in

ASSUME CharSelectAssumption ==
    /\ KeyOf \in [Clients -> Keys] /\ AccountOfKey \in [Keys -> Accounts]
    /\ Clients \cap Keys = {}
    /\ NoAccount \notin Accounts /\ MaxEnters \in Nat

VARIABLES
    client,         \* CharSelectClient: [refs, up, sent, id, authed, approved, listed]
    unauthed,       \* unauthedClients, the order left out
    unclaimed,      \* unclaimedAuths: the keys, the order left out
    attempts,       \* clientsAttemptingToZoneIn: [account, client]
    timers,         \* how many zone-in timers each client has
    asked,          \* how many requests the master has not answered, by account
    jobs,           \* queries: [op, who, name, done, hit]
    pairs,          \* the rows of account_name_id_pair
    characters,     \* the rows of character: [name, account]
    link,           \* TcpClient: "down" (connect cycle) or "up" (status updates)
    sentAuths,      \* history: the keys the login server has sent
    entered,        \* history: how often each client asked to zone in,
    answered,       \* and was told the outcome
    pairFailed      \* history: the clients whose INSERT of a pair failed

screenVars == <<pairs, characters, pairFailed>>
zoneVars == <<attempts, timers, asked, entered, answered>>
authVars == <<unauthed, unclaimed>>
loginVars == <<link, sentAuths>>
vars == <<client, jobs, authVars, zoneVars, screenVars, loginVars>>

\* char_select_client_create
NewClient == [refs |-> 1, up |-> TRUE, sent |-> FALSE, id |-> NoAccount,
              authed |-> FALSE, approved |-> FALSE, listed |-> FALSE]
Unborn == [NewClient EXCEPT !.refs = 0, !.up = FALSE]
Freed == [Unborn EXCEPT !.sent = TRUE]

Init ==
    /\ client = [c \in Clients |-> Unborn]
    /\ unauthed = {} /\ unclaimed = {}
    /\ attempts = <<>> /\ timers = [c \in Clients |-> 0]
    /\ asked = [a \in Accounts |-> 0]
    /\ jobs = {} /\ pairs = {} /\ characters = {} /\ pairFailed = {}
    /\ link = "down" /\ sentAuths = {}
    /\ entered = [c \in Clients |-> 0] /\ answered = [c \in Clients |-> 0]

\* array_swap_and_pop
SwapAndPop(s, k) == SubSeq([s EXCEPT ![k] = s[Len(s)]], 1, Len(s) - 1)

Least(S) == CHOOSE i \in S : \A j \in S : i <= j

NewJob(op, who, name) == [op |-> op, who |-> who, name |-> name, done |-> FALSE, hit |-> FALSE]

AccountOf(c) == AccountOfKey[KeyOf[c]]

-----------------------------------------------------------------------------
(* Clients and auths: char_select_client.c, eqp_char_select.c *)

Connect(c) ==
    /\ client[c] = Unborn
    /\ client' = [client EXCEPT ![c] = NewClient]
    /\ UNCHANGED <<jobs, authVars, zoneVars, screenVars, loginVars>>

\* char_select_remove_client_from_unauthed_list
Forgotten(c) == unauthed \ {c}

\* char_select_client_drop, of the client that is now r
Drop(c, r) ==
    IF r.refs > 1
      THEN /\ client' = [client EXCEPT ![c] = [r EXCEPT !.refs = @ - 1]]
           /\ UNCHANGED unauthed
      ELSE /\ client' = [client EXCEPT ![c] = Freed]
           /\ unauthed' = Forgotten(c)

\* client_on_disconnect
Disconnect(c) ==
    /\ client[c].up
    /\ Drop(c, [client[c] EXCEPT !.up = FALSE])
    /\ UNCHANGED <<jobs, unclaimed, zoneVars, screenVars, loginVars>>

\* char_select_client_set_auth, cs_client_trilogy_on_auth and
\* char_select_client_query_account_id, whose query is added to queue
SetAuth(c, authed, queue) ==
    /\ client' = [client EXCEPT ![c].sent = TRUE, ![c].authed = authed, ![c].refs = @ + 1]
    /\ jobs' = queue \cup {NewJob("account", c, "")}

\* cs_trilogy_handle_op_login_info and char_select_handle_unauthed_client
HandleLoginInfo(c) ==
    /\ client[c].up /\ ~client[c].sent
    /\ \/ /\ KeyOf[c] \in unclaimed
          /\ SetAuth(c, TRUE, jobs)
          /\ unclaimed' = unclaimed \ {KeyOf[c]}
          /\ UNCHANGED unauthed
       \/ /\ KeyOf[c] \notin unclaimed
          /\ client' = [client EXCEPT ![c].sent = TRUE]
          /\ unauthed' = unauthed \cup {c}
          /\ UNCHANGED <<jobs, unclaimed>>
    /\ UNCHANGED <<zoneVars, screenVars, loginVars>>

\* The search of char_select_handle_client_auth
Waiting(k) == {c \in unauthed : KeyOf[c] = k}

\* char_select_handle_client_auth.  An auth that finds its client has no
\* timestamp: whether it then counts as authed depends on what the memory held.
HandleClientAuth(k, queue) ==
    \/ \E c \in Waiting(k), authed \in BOOLEAN :
         /\ SetAuth(c, authed, queue)
         /\ unauthed' = unauthed \ {c}
         /\ UNCHANGED unclaimed
    \/ /\ Waiting(k) = {}
       /\ unclaimed' = unclaimed \cup {k}
       /\ jobs' = queue
       /\ UNCHANGED <<client, unauthed>>

\* char_select_unclaimed_auths_timer_callback: the auths that have waited for
\* EQP_CHAR_SELECT_UNCLAIMED_AUTHS_TIMEOUT are given up.
UnclaimedAuthsTimer ==
    /\ unclaimed # {}
    /\ unclaimed' \in SUBSET unclaimed
    /\ UNCHANGED <<client, jobs, unauthed, zoneVars, screenVars, loginVars>>

-----------------------------------------------------------------------------
(* The connection to the login server: tcp_client.c *)

LinkStep == UNCHANGED <<client, authVars, zoneVars, screenVars>>

\* tcp_client_reconnect_callback and tcp_client_do_connect, which registers and
\* sends the status at once, and makes the timer one of status updates; a
\* failed attempt is repeated by the timer.
Reconnect ==
    /\ link = "down" /\ link' = "up"
    /\ LinkStep /\ UNCHANGED <<jobs, sentAuths>>

\* tcp_client_restart_connection: recv returns 0, or the status timer finds that
\* nothing came for EQP_TCP_CLIENT_REMOTE_TIMEOUT_MILLISECONDS
Restart ==
    /\ link = "up" /\ link' = "down"
    /\ LinkStep /\ UNCHANGED <<jobs, sentAuths>>

\* tcp_client_handle_op_client_login_request, which always answers that the
\* client is allowed; keep-alives; and the packet of tcp_client_status_update_callback
HandleLoginRequest == link = "up" /\ UNCHANGED vars

\* tcp_client_handle_op_client_login_auth
HandleLoginAuth(k) ==
    /\ k \notin sentAuths
    /\ link = "up" /\ UNCHANGED link
    /\ sentAuths' = sentAuths \cup {k}
    /\ jobs' = jobs \cup {NewJob("status", k, "")}
    /\ LinkStep

-----------------------------------------------------------------------------
(* Queries.  The database thread executes them in any order; a query that   *)
(* fails is discarded without its callback, and a SELECT that found nothing *)
(* is executed again by query_select in its callback.                       *)

Taken(name) == \E row \in characters : row.name = name

\* Whether the query finds or changes a row
Hits(job) ==
    CASE job.op = "name"   -> Taken(job.name)
      [] job.op = "create" -> ~Taken(job.name)
      [] job.op = "delete" -> [name |-> job.name, account |-> client[job.who].id] \in characters
      [] OTHER -> FALSE

Execute(job) ==
    /\ job \in jobs /\ ~job.done
    /\ LET row == [name |-> job.name, account |-> client[job.who].id]
           fails == job.op = "pair" /\ AccountOf(job.who) \in pairs
       IN  /\ jobs' = (jobs \ {job}) \cup
                        IF fails THEN {} ELSE {[job EXCEPT !.done = TRUE, !.hit = Hits(job)]}
           /\ characters' = CASE job.op = "create" /\ Hits(job) -> characters \cup {row}
                              [] job.op = "delete" -> characters \ {row}
                              [] OTHER -> characters
           /\ pairs' = IF job.op = "pair" THEN pairs \cup {AccountOf(job.who)} ELSE pairs
           /\ pairFailed' = IF fails THEN pairFailed \cup {job.who} ELSE pairFailed
    /\ UNCHANGED <<client, authVars, zoneVars, loginVars>>

Due(job, op) == job \in jobs /\ job.done /\ job.op = op

\* tcp_client_account_status_callback: the account may be banned or suspended,
\* or the server locked.
AccountStatusCallback(job) ==
    /\ Due(job, "status")
    /\ \/ /\ jobs' = jobs \ {job}
          /\ UNCHANGED <<client, authVars>>
       \/ HandleClientAuth(job.who, jobs \ {job})
    /\ UNCHANGED <<zoneVars, screenVars, loginVars>>

\* The next query takes over the reference of this one.
Carried(job, op) == (jobs \ {job}) \cup {NewJob(op, job.who, "")}

\* char_select_client_query_account_id_callback; with a row,
\* cs_client_trilogy_on_account_id asks for the characters
AccountIdCallback(job) ==
    /\ Due(job, "account")
    /\ IF AccountOf(job.who) \in pairs
         THEN /\ client' = [client EXCEPT ![job.who].id = AccountOf(job.who)]
              /\ jobs' = Carried(job, "characters")
         ELSE /\ jobs' = Carried(job, "pair")
              /\ UNCHANGED client
    /\ UNCHANGED <<authVars, zoneVars, screenVars, loginVars>>

\* char_select_client_insert_account_id_callback
InsertAccountIdCallback(job) ==
    /\ Due(job, "pair")
    /\ client' = [client EXCEPT ![job.who].id = AccountOf(job.who)]
    /\ jobs' = Carried(job, "characters")
    /\ UNCHANGED <<authVars, zoneVars, screenVars, loginVars>>

\* The callback of a query that ends here: the client is now r, and drops.
Finish(job, r) ==
    /\ jobs' = jobs \ {job}
    /\ Drop(job.who, r)
    /\ UNCHANGED <<unclaimed, zoneVars, screenVars, loginVars>>

\* cs_client_trilogy_characters_callback
CharactersCallback(job) ==
    /\ Due(job, "characters")
    /\ Finish(job, [client[job.who] EXCEPT !.listed = TRUE])

\* char_select_client_query_character_name_callback
NameCallback(job) ==
    /\ Due(job, "name")
    /\ Finish(job, [client[job.who] EXCEPT !.approved = @ \/ ~(job.hit \/ Taken(job.name))])

\* cs_client_trilogy_create_character_callback: a row, and then bind points and
\* items in a transaction or the characters at once; or the failure
CreateCallback(job, more) ==
    /\ Due(job, "create")
    /\ IF job.hit
         THEN /\ jobs' = Carried(job, IF more THEN "transaction" ELSE "characters")
              /\ UNCHANGED <<client, authVars, zoneVars, screenVars, loginVars>>
         ELSE Finish(job, [client[job.who] EXCEPT !.approved = FALSE])

\* cs_client_trilogy_transaction_finished
TransactionFinished(job) ==
    /\ Due(job, "transaction")
    /\ jobs' = Carried(job, "characters")
    /\ UNCHANGED <<client, authVars, zoneVars, screenVars, loginVars>>

\* char_select_client_delete_character_callback
DeleteCallback(job) ==
    /\ Due(job, "delete")
    /\ IF job.hit
         THEN /\ jobs' = Carried(job, "characters")
              /\ UNCHANGED <<client, authVars, zoneVars, screenVars, loginVars>>
         ELSE Finish(job, client[job.who])

-----------------------------------------------------------------------------
(* The character screen: char_select_client_trilogy.c *)

AtScreen(c) == client[c].up /\ client[c].listed /\ \A job \in jobs : job.who # c

\* cs_trilogy_handle_op_name_approval, _create_character and _delete_character
\* schedule one query, which holds a reference.
Screen(c, op, name) ==
    /\ AtScreen(c) /\ client[c].authed
    /\ op = "create" => client[c].approved
    /\ client' = [client EXCEPT ![c].refs = @ + 1]
    /\ jobs' = jobs \cup {NewJob(op, c, name)}
    /\ UNCHANGED <<authVars, zoneVars, screenVars, loginVars>>

\* cs_trilogy_handle_op_create_character with parameters that are not valid
CreateInvalid(c) ==
    /\ AtScreen(c) /\ client[c].authed /\ client[c].approved
    /\ client' = [client EXCEPT ![c].approved = FALSE]
    /\ UNCHANGED <<jobs, authVars, zoneVars, screenVars, loginVars>>

\* Mutant: the timer takes no reference.
EnterRefs_None(c) == client

EnterRefs(c) == [client EXCEPT ![c].refs = @ + 1]

\* cs_trilogy_handle_op_enter and char_select_send_client_zone_in_request
HandleEnter(c) ==
    /\ AtScreen(c) /\ client[c].authed
    /\ entered[c] < MaxEnters
    /\ entered' = [entered EXCEPT ![c] = @ + 1]
    /\ asked' = [asked EXCEPT ![client[c].id] = @ + 1]
    /\ attempts' = Append(attempts, [account |-> client[c].id, client |-> c])
    /\ timers' = [timers EXCEPT ![c] = @ + 1]
    /\ client' = EnterRefs(c)
    /\ UNCHANGED <<jobs, authVars, answered, screenVars, loginVars>>

\* The first of these attempts is removed and its client told the outcome.
Answer(found) ==
    IF found = {}
      THEN UNCHANGED <<attempts, answered>>
      ELSE /\ answered' = [answered EXCEPT ![attempts[Least(found)].client] = @ + 1]
           /\ attempts' = SwapAndPop(attempts, Least(found))

\* char_select_handle_op_client_zoning and _client_zoning_rejected, which differ
\* in what the client is told
HandleZoningAnswer(a) ==
    /\ asked[a] > 0
    /\ asked' = [asked EXCEPT ![a] = @ - 1]
    /\ Answer({i \in DOMAIN attempts : attempts[i].account = a})
    /\ UNCHANGED <<client, jobs, authVars, timers, entered, screenVars, loginVars>>

\* Mutant: the client is told, but its attempt stays in the array.
TimedOut_Kept(c) ==
    /\ answered' = [answered EXCEPT ![c] = @ + 1]
    /\ UNCHANGED attempts

\* Mutant: the timer only gives up its reference.
TimedOut_Silent(c) == UNCHANGED <<attempts, answered>>

\* The search of char_select_client_zone_in_timeout_callback
TimedOut(c) == Answer({i \in DOMAIN attempts : attempts[i].client = c})

\* char_select_client_zone_in_timeout_callback
ZoneInTimeout(c) ==
    /\ timers[c] > 0
    /\ TimedOut(c)
    /\ timers' = [timers EXCEPT ![c] = @ - 1]
    /\ Drop(c, client[c])
    /\ UNCHANGED <<jobs, unclaimed, asked, entered, screenVars, loginVars>>

-----------------------------------------------------------------------------
\* db_thread_execute_query_callbacks
Callback(job) ==
    \/ AccountStatusCallback(job) \/ AccountIdCallback(job) \/ InsertAccountIdCallback(job)
    \/ CharactersCallback(job) \/ NameCallback(job)
    \/ \E more \in BOOLEAN : CreateCallback(job, more)
    \/ TransactionFinished(job) \/ DeleteCallback(job)

Database(who) == \E job \in jobs : job.who = who /\ (Execute(job) \/ Callback(job))

Player(c) ==
    \/ Connect(c) \/ Disconnect(c) \/ HandleLoginInfo(c)
    \/ \E op \in {"name", "create", "delete"}, name \in Names : Screen(c, op, name)
    \/ CreateInvalid(c) \/ HandleEnter(c)

LoginServer ==
    \/ Reconnect \/ Restart \/ HandleLoginRequest
    \/ \E k \in Keys : HandleLoginAuth(k)
    \/ UnclaimedAuthsTimer

Next ==
    \/ \E c \in Clients : Player(c) \/ ZoneInTimeout(c)
    \/ \E who \in Clients \cup Keys : Database(who)
    \/ LoginServer
    \/ \E a \in Accounts : HandleZoningAnswer(a)

Spec == Init /\ [][Next]_vars

\* The database thread executes all it is given, the main loop executes all
\* callbacks and timers on every pass, and time passes.  Players, the master and the login server need
\* do nothing.
FairSpec ==
    /\ Spec
    /\ \A who \in Clients \cup Keys : WF_vars(Database(who))
    /\ \A c \in Clients : WF_vars(ZoneInTimeout(c))

-----------------------------------------------------------------------------
(* Properties *)

AttemptsOf(c) == {i \in DOMAIN attempts : attempts[i].client = c}

\* Everything that points to a client (the list of clients without an auth, an
\* attempt to zone in, a query, a timer, the connection) points to one that
\* is still allocated: char_select_client_drop frees it at the last of them.
NoDanglingClient ==
    \A c \in Clients :
        (\/ c \in unauthed \/ AttemptsOf(c) # {} \/ timers[c] > 0 \/ client[c].up
         \/ \E job \in jobs : job.who = c) => client[c].refs > 0

\* Each request to zone in is answered at most once, by the master's answer or
\* by a timer: what was answered and what is still listed add up to what was
\* asked, and every attempt still listed has a timer that will end it.
ZoneInAnsweredOnce ==
    \A c \in Clients :
        /\ answered[c] + Cardinality(AttemptsOf(c)) = entered[c]
        /\ Cardinality(AttemptsOf(c)) <= timers[c]

\* Every request to zone in is answered, also when the master never answers;
\* and a client that was matched with its auth, whichever of the two came
\* first, is shown its characters, unless it goes or another client of the
\* account inserted the pair in between.
RequestsAnswered ==
    /\ \A c \in Clients, n \in 1 .. MaxEnters : (entered[c] >= n) ~> (answered[c] >= n)
    /\ \A c \in Clients :
         (client[c].up /\ client[c].sent /\ (c \in unauthed => KeyOf[c] \in unclaimed))
             ~> (client[c].listed \/ ~client[c].up \/ c \in pairFailed)
=============================================================================
