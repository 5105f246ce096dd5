------------------------------- MODULE Login --------------------------------
(***************************************************************************)
(* The login process (src/login): its game clients, from the version       *)
(* packet over the credentials to the session key; the list of clients by  *)
(* account id; the game servers and the TCP connections they register      *)
(* over.  One thread runs login_main_loop: each handler and each database  *)
(* callback is one step, and the database thread executes the queries.     *)
(* A client is kept by reference counts, one for its connection and one    *)
(* for each query.  A player sends the version packet once per connection. *)
(* A TCP connection carries whole packets in order; what the server sent   *)
(* before it closed its end is still read.                                 *)
(***************************************************************************)
EXTENDS Integers, Sequences, FiniteSets

CONSTANTS
    Players,        \* the game clients, each with one UDP connection
    Users,          \* the account names
    Passwords,
    Servers,        \* the game servers
    MaxConns        \* bound: how many TCP connections are made

ASSUME LoginAssumption == MaxConns \in Nat

VARIABLES
    user,           \* the account name each player uses
    client,         \* LoginClient: [refs, state, id, pass, key]
    clientList,     \* ClientList: records [id, client], the order left out
    table,          \* the table login: [user, pass] by rowid
    jobs,           \* queries: [op, client, done], done once executed
    conns,          \* connections: [server, open, inbox, asked, answered]: the packets on
                    \* their way to the login server, the requests the server was sent
    accepted,       \* how many of conns accept has returned
    serverList,     \* ServerList: [conn, status]
    tcpClients,     \* TcpServer.clients: [conn, index], index -1 without a listing
    told,           \* history: the packets each player was sent
    issued,         \* history: the keys sent to servers: [id, key]
    insertFailed    \* history: the players whose INSERT failed

playerVars == <<user, client, clientList, table, jobs, told, insertFailed>>
serverVars == <<conns, accepted, serverList, tcpClients, issued>>
vars == <<playerVars, serverVars>>

\* login_client_create
NewClient == [refs |-> 1, state |-> "BrandNew", id |-> 0, pass |-> "", key |-> 0]
Freed == [NewClient EXCEPT !.refs = 0, !.state = "none"]

Init ==
    /\ user \in [Players -> Users]
    /\ client = [p \in Players |-> Freed]
    /\ clientList = {} /\ table = <<>> /\ jobs = {}
    /\ conns = <<>> /\ accepted = 0
    /\ serverList = <<>> /\ tcpClients = <<>>
    /\ told = [p \in Players |-> {}]
    /\ issued = {} /\ insertFailed = {}

Tell(p, what) == told' = [told EXCEPT ![p] = @ \cup {what}]

\* array_swap_and_pop
SwapAndPop(s, k) == SubSeq([s EXCEPT ![k] = s[Len(s)]], 1, Len(s) - 1)

Least(S) == CHOOSE i \in S : \A j \in S : i <= j

-----------------------------------------------------------------------------
(* Game clients: login_client.c, login_client_trilogy.c, client_list.c *)

Connected(p) == "Connected" \in told[p] /\ "Gone" \notin told[p]

\* client_create_from_new_connection_trilogy
Connect(p) ==
    /\ "Connected" \notin told[p]
    /\ client' = [client EXCEPT ![p] = NewClient]
    /\ Tell(p, "Connected")
    /\ UNCHANGED <<user, clientList, table, jobs, insertFailed, serverVars>>

\* Mutant: the search stops at the first entry.
Unlisted_First(list, id) ==
    LET found == {e \in list : e.id = id}
    IN  IF found = {} THEN list ELSE list \ {CHOOSE e \in found : TRUE}

\* client_list_remove: every entry with the account id
Unlisted(list, id) == {e \in list : e.id # id}

\* login_client_grab
Grabbed(c) == [c EXCEPT !.refs = @ + 1]

\* login_client_drop, of the client that is now c: the last reference frees it.
Drop(p, c, list) ==
    IF c.refs > 1
      THEN /\ client' = [client EXCEPT ![p] = [c EXCEPT !.refs = @ - 1]]
           /\ clientList' = list
      ELSE /\ client' = [client EXCEPT ![p] = Freed]
           /\ clientList' = Unlisted(list, c.id)

\* client_on_disconnect
Disconnect(p) ==
    /\ Connected(p)
    /\ Drop(p, client[p], clientList)
    /\ Tell(p, "Gone")
    /\ UNCHANGED <<user, table, jobs, insertFailed, serverVars>>

\* login_trilogy_handle_op_version
HandleVersion(p) ==
    /\ Connected(p) /\ client[p].state = "BrandNew"
    /\ client' = [client EXCEPT ![p].state = "VersionSent"]
    /\ UNCHANGED <<user, clientList, table, jobs, told, insertFailed, serverVars>>

Job(op, p, done) == [op |-> op, client |-> p, done |-> done]

\* login_trilogy_handle_op_credentials and login_client_check_credentials; the
\* client stays in ProcessingCredentials when its name or password is too long.
HandleCredentials(p, pass, tooLong) ==
    /\ Connected(p) /\ client[p].state = "VersionSent"
    /\ LET c == [client[p] EXCEPT !.state = "ProcessingCredentials"]
       IN  \/ /\ tooLong
              /\ client' = [client EXCEPT ![p] = c]
              /\ Tell(p, "Error")
              /\ UNCHANGED jobs
           \/ /\ ~tooLong
              /\ client' = [client EXCEPT ![p] = Grabbed([c EXCEPT !.pass = pass])]
              /\ jobs' = jobs \cup {Job("select", p, FALSE)}
              /\ UNCHANGED told
    /\ UNCHANGED <<user, clientList, table, insertFailed, serverVars>>

HasAccount(u) == \E i \in DOMAIN table : table[i].user = u
AccountId(u) == CHOOSE i \in DOMAIN table : table[i].user = u

\* The database thread.  The username is a primary key: an INSERT for one that
\* exists fails, and a query that fails is discarded without its callback.  A
\* SELECT that finds nothing is executed again by query_select in its callback.
Execute(job) ==
    /\ job \in jobs /\ ~job.done
    /\ LET p == job.client
           inserts == job.op = "insert"
           fails == inserts /\ HasAccount(user[p])
       IN  /\ jobs' = (jobs \ {job}) \cup IF fails THEN {} ELSE {Job(job.op, p, TRUE)}
           /\ insertFailed' = insertFailed \cup IF fails THEN {p} ELSE {}
           /\ table' = IF inserts /\ ~fails
                         THEN Append(table, [user |-> user[p], pass |-> client[p].pass])
                         ELSE table
    /\ UNCHANGED <<user, client, clientList, told, serverVars>>

\* login_client_trilogy_handle_credentials_result and client_list_add, then the
\* query's reference is dropped
LogIn(p, id) ==
    /\ Drop(p, [client[p] EXCEPT !.state = "AcceptedCredentials", !.id = id, !.pass = ""],
            clientList \cup {[id |-> id, client |-> p]})
    /\ Tell(p, "Session")

\* Mutant: a wrong password is not answered.
Refuse_Silent(p) == Drop(p, [client[p] EXCEPT !.pass = ""], clientList) /\ UNCHANGED told

\* The end of login_client_credentials_callback after a wrong password
Refuse(p) == Drop(p, [client[p] EXCEPT !.pass = ""], clientList) /\ Tell(p, "Error")

\* login_client_credentials_callback and login_client_auto_create_account, which
\* takes over the query's reference
CredentialsCallback(p) ==
    /\ Job("select", p, TRUE) \in jobs
    /\ \/ /\ ~HasAccount(user[p])
          /\ jobs' = (jobs \ {Job("select", p, TRUE)}) \cup {Job("insert", p, FALSE)}
          /\ UNCHANGED <<client, clientList, told>>
       \/ /\ HasAccount(user[p])
          /\ jobs' = jobs \ {Job("select", p, TRUE)}
          /\ IF table[AccountId(user[p])].pass = client[p].pass
               THEN LogIn(p, AccountId(user[p]))
               ELSE Refuse(p)
    /\ UNCHANGED <<user, table, insertFailed, serverVars>>

\* login_client_auto_create_account_callback
AutoCreateCallback(p) ==
    /\ Job("insert", p, TRUE) \in jobs
    /\ jobs' = jobs \ {Job("insert", p, TRUE)}
    /\ LogIn(p, AccountId(user[p]))
    /\ UNCHANGED <<user, table, insertFailed, serverVars>>

Accepted(p) == Connected(p) /\ client[p].state = "AcceptedCredentials"

\* login_trilogy_handle_op_banner: only answers
HandleBanner(p) == Accepted(p) /\ UNCHANGED vars

\* login_trilogy_handle_op_server_list: only answers, with serverList; which of
\* a server's two addresses the player is shown is left out
HandleServerList(p) == Accepted(p) /\ UNCHANGED vars

\* login_trilogy_handle_op_session_key: only answers, with the client's key
HandleSessionKey(p) == Accepted(p) /\ UNCHANGED vars

\* login_trilogy_handle_op_server_status_request: the first listing with the
\* address the player names, and the first connection with that listing's index
\* (bound: an account asks once over a connection)
HandleStatusRequest(p, server) ==
    /\ Accepted(p)
    /\ LET found == {i \in DOMAIN serverList : conns[serverList[i].conn].server = server}
           via == {k \in DOMAIN tcpClients : tcpClients[k].index = Least(found) - 1}
           conn == tcpClients[Least(via)].conn
       IN  /\ found # {} /\ via # {}
           /\ conns[conn].open /\ client[p].id \notin conns[conn].asked
           /\ conns' = [conns EXCEPT ![conn].asked = @ \cup {client[p].id}]
    /\ UNCHANGED <<playerVars, accepted, serverList, tcpClients, issued>>

-----------------------------------------------------------------------------
(* The game servers' end of the connections: char_select/tcp_client.c *)

\* tcp_client_on_connect of the server: it registers and sends its status.
ServerConnect(s) ==
    /\ Len(conns) < MaxConns
    /\ \A k \in DOMAIN conns : conns[k].server = s => ~conns[k].open
    /\ conns' = Append(conns, [server |-> s, open |-> TRUE, asked |-> {}, answered |-> {},
                               inbox |-> <<[op |-> "NewLoginServer"], [op |-> "LoginServerStatus"]>>])
    /\ UNCHANGED <<playerVars, accepted, serverList, tcpClients, issued>>

\* The server's answer to a ClientLoginRequest; this one allows everybody.
ServerRespond(k, id, response) ==
    /\ k \in DOMAIN conns /\ conns[k].open /\ id \in conns[k].asked \ conns[k].answered
    /\ conns' = [conns EXCEPT ![k].answered = @ \cup {id},
                              ![k].inbox = Append(@, [op |-> "ClientLoginResponse", id |-> id,
                                                      response |-> response])]
    /\ UNCHANGED <<playerVars, accepted, serverList, tcpClients, issued>>

\* The server stops or restarts its connection.
ServerClose(k) ==
    /\ k \in DOMAIN conns /\ conns[k].open
    /\ conns' = [conns EXCEPT ![k].open = FALSE]
    /\ UNCHANGED <<playerVars, accepted, serverList, tcpClients, issued>>

-----------------------------------------------------------------------------
(* Game servers: tcp_server.c, tcp_client.c, server_list.c *)

\* tcp_server_accept_new_connections and tcp_client_init
TcpAccept ==
    /\ accepted < Len(conns)
    /\ accepted' = accepted + 1
    /\ tcpClients' = Append(tcpClients, [conn |-> accepted + 1, index |-> -1])
    /\ UNCHANGED <<playerVars, conns, serverList, issued>>

\* tcp_server_recv and tcp_client_handle_packet: the next packet of client i
Received(i, op) ==
    /\ i \in DOMAIN tcpClients
    /\ conns[tcpClients[i].conn].inbox # <<>>
    /\ Head(conns[tcpClients[i].conn].inbox).op = op
    /\ conns' = [conns EXCEPT ![tcpClients[i].conn].inbox = Tail(@)]

\* tcp_client_handle_op_new_login_server and server_list_add
HandleNewLoginServer(i) ==
    /\ Received(i, "NewLoginServer")
    /\ IF tcpClients[i].index # -1
         THEN UNCHANGED <<serverList, tcpClients>>
         ELSE /\ serverList' = Append(serverList, [conn |-> tcpClients[i].conn, status |-> "Locked"])
              /\ tcpClients' = [tcpClients EXCEPT ![i].index = Len(serverList)]
    /\ UNCHANGED <<playerVars, accepted, issued>>

\* tcp_client_handle_op_login_server_status and server_list_update_by_index;
\* the keep-alive that answers it changes nothing at the server
HandleServerStatus(i) ==
    /\ Received(i, "LoginServerStatus")
    /\ serverList' = IF tcpClients[i].index + 1 \in DOMAIN serverList
                       THEN [serverList EXCEPT ![tcpClients[i].index + 1].status = "Up"]
                       ELSE serverList
    /\ UNCHANGED <<playerVars, accepted, tcpClients, issued>>

\* Mutant: the server is sent the key the client had before.
ClientAuth_Old(c, key) == [id |-> c.id, key |-> c.key]

\* tcp_client_send_client_auth and login_client_generate_session_key
ClientAuth(c, key) == [id |-> c.id, key |-> key]

\* tcp_client_handle_op_client_login_response: a new session key goes to the
\* server before the client is told that it is accepted.
HandleLoginResponse(i) ==
    /\ Received(i, "ClientLoginResponse")
    /\ LET msg == Head(conns[tcpClients[i].conn].inbox)
           found == {e \in clientList : e.id = msg.id}
           key == Cardinality(issued) + 1
       IN  IF tcpClients[i].index = -1 \/ found = {}
             THEN UNCHANGED <<client, told, issued>>
             ELSE \E e \in found :
                    /\ IF msg.response
                         THEN /\ issued' = issued \cup {ClientAuth(client[e.client], key)}
                              /\ client' = [client EXCEPT ![e.client].key = key]
                         ELSE UNCHANGED <<issued, client>>
                    /\ IF client[e.client].state = "AcceptedCredentials"
                         THEN Tell(e.client, IF msg.response THEN "Accept" ELSE "Error")
                         ELSE UNCHANGED told
    /\ UNCHANGED <<user, clientList, table, jobs, insertFailed, accepted, serverList, tcpClients>>

\* Mutant: the connection of the listing that was moved keeps its old index.
Reindexed_Stale(clients, gone, back) == clients

\* The fix-up in tcp_server_handle_closed_client: the listing that was at the
\* back is now where the removed one was.
Reindexed(clients, gone, back) ==
    LET found == {i \in DOMAIN clients : clients[i].index = back}
    IN  IF back > 0 /\ found # {} THEN [clients EXCEPT ![Least(found)].index = gone] ELSE clients

\* server_list_remove_by_index
WithoutListing(index) == SwapAndPop(serverList, index + 1)

\* tcp_server_handle_closed_client, when recv finds the connection closed
HandleClosedClient(i) ==
    /\ i \in DOMAIN tcpClients
    /\ ~conns[tcpClients[i].conn].open /\ conns[tcpClients[i].conn].inbox = <<>>
    /\ LET gone == tcpClients[i].index
       IN  IF gone = -1
             THEN /\ tcpClients' = SwapAndPop(tcpClients, i)
                  /\ UNCHANGED serverList
             ELSE /\ serverList' = WithoutListing(gone)
                  /\ tcpClients' = SwapAndPop(Reindexed(tcpClients, gone, Len(serverList) - 1), i)
    /\ UNCHANGED <<playerVars, conns, accepted, issued>>

-----------------------------------------------------------------------------
HandlePacket(p) ==
    \/ HandleVersion(p)
    \/ \E pass \in Passwords, tooLong \in BOOLEAN : HandleCredentials(p, pass, tooLong)
    \/ HandleBanner(p) \/ HandleServerList(p) \/ HandleSessionKey(p)
    \/ \E s \in Servers : HandleStatusRequest(p, s)

Callback == \E p \in Players : CredentialsCallback(p) \/ AutoCreateCallback(p)

Server ==
    \/ \E s \in Servers : ServerConnect(s)
    \/ \E k \in DOMAIN conns : ServerClose(k)
    \/ \E k \in DOMAIN conns, id \in DOMAIN table, response \in BOOLEAN : ServerRespond(k, id, response)

TcpRecv(k) ==
    \E i \in DOMAIN tcpClients :
        /\ tcpClients[i].conn = k
        /\ \/ HandleNewLoginServer(i) \/ HandleServerStatus(i) \/ HandleLoginResponse(i)
           \/ HandleClosedClient(i)

Next ==
    \/ \E p \in Players : Connect(p) \/ Disconnect(p) \/ HandlePacket(p)
    \/ \E job \in jobs : Execute(job)
    \/ Callback \/ Server \/ TcpAccept
    \/ \E k \in DOMAIN conns : TcpRecv(k)

Spec == Init /\ [][Next]_vars

\* The main loop executes callbacks, accepts and receives on every pass, and
\* recv reads what is there from each connection; the database thread runs.
\* Players and servers need do nothing.
FairSpec ==
    /\ Spec
    /\ WF_vars(\E job \in jobs : Execute(job))
    /\ WF_vars(Callback) /\ WF_vars(TcpAccept)
    /\ \A k \in 1 .. MaxConns : WF_vars(TcpRecv(k))

-----------------------------------------------------------------------------
(* Properties *)

\* A query in flight and an entry of the client list refer to a client that is
\* still allocated, and the entry has the account id the client is logged in
\* with: login_client_drop frees a client only when nothing refers to it.
NoDanglingClient ==
    /\ \A job \in jobs : client[job.client].refs > 0
    /\ \A p \in Players : Connected(p) => client[p].refs > 0
    /\ \A e \in clientList : client[e.client].refs > 0 /\ client[e.client].id = e.id

\* The index a TcpClient keeps is that of the listing its own server
\* registered, and every listing has a TcpClient that answers for it: swap and
\* pop in the two arrays never separates them.
IndexConsistent ==
    /\ \A i \in DOMAIN tcpClients : tcpClients[i].index # -1 =>
         /\ tcpClients[i].index + 1 \in DOMAIN serverList
         /\ serverList[tcpClients[i].index + 1].conn = tcpClients[i].conn
    /\ \A j \in DOMAIN serverList : \E i \in DOMAIN tcpClients : tcpClients[i].index = j - 1

\* A player that was told it is accepted has a session key that a server was
\* sent for that player's own account, and no key was issued twice.
AcceptedWithItsKey ==
    /\ \A p \in Players : "Accept" \in told[p] /\ client[p].refs > 0 =>
         [id |-> AccountId(user[p]), key |-> client[p].key] \in issued
    /\ \A a, b \in issued : a.key = b.key => a = b

\* Credentials are answered with a session or an error, unless the player goes
\* or another player created the same account in between (the INSERT fails and
\* its callback, the only one to answer, never runs).
CredentialsAnswered ==
    \A p \in Players :
        client[p].state = "ProcessingCredentials"
            ~> {"Session", "Error", "Gone"} \cap told[p] # {} \/ p \in insertFailed
=============================================================================
