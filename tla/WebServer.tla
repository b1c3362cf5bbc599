------------------------------ MODULE WebServer ------------------------------
(***************************************************************************)
(* The web server of LMice (web/main.cpp, web/json_request.cpp,            *)
(* web/user.cpp): a websocket server in one thread, whose handlers open    *)
(* and close connections and answer messages.  It keeps a token for each   *)
(* connection and a set of users, which is written to the file user_set    *)
(* when the server stops and read when it starts.                          *)
(*                                                                         *)
(* A connection is the address of its object, which a later connection may *)
(* get again.  A challenge is a hash over the system time: a number that   *)
(* was never used before, as long as the clock has moved.  A password is   *)
(* right or wrong.                                                         *)
(***************************************************************************)
EXTENDS Integers, FiniteSets

CONSTANTS Connections,    \* the addresses of connection objects
          Names, Emails,  \* of the users
          WebActs         \* how many events there are, at most

VARIABLE web

Nobody == 0

\* The file: not there, cut off by a crash, or a set of users.
NoFile == [kind |-> "none", users |-> {}]
HalfFile == [kind |-> "half", users |-> {}]
FileOf(users) == [kind |-> "whole", users |-> users]

\* A place of the token_set, by connection.
NoToken == [here |-> FALSE, user |-> Nobody, challenge |-> 0, text |-> ""]

\* What a process has in memory.  `known`: the challenges a client was given.
\* History: `own`, the connections whose client has logged in since it was opened.
NewProcess(users) ==
    [users |-> users, open |-> {}, tokens |-> [c \in Connections |-> NoToken],
     known |-> [c \in Connections |-> {}], own |-> {}]

Pairs(users) == {[name |-> u.name, email |-> u.email] : u \in users}

\* History: `promised`, the registrations that were answered OK and not lost with
\* a process that crashed; `left`, the challenges of sessions that logged out.
WebInit ==
    web = [up |-> "no", file |-> NoFile, mem |-> NewProcess({}), serial |-> 1,
           promised |-> {}, left |-> {}, acts |-> 0]

WebAct == web.acts < WebActs

WebActed(w) == web' = [w EXCEPT !.acts = @ + 1]

Has(m, c) == m.tokens[c].here

-----------------------------------------------------------------------------
(* web/user.cpp *)

\* token_insert(): none for an address that has one; the container also refuses
\* a token whose text equals that of another, and the text is always empty.
TokenInsert(m, c, challenge) ==
    LET token == [here |-> TRUE, user |-> Nobody, challenge |-> challenge, text |-> ""]
    IN  IF \E d \in Connections : Has(m, d) /\ (d = c \/ m.tokens[d].text = token.text)
        THEN m
        ELSE [m EXCEPT !.tokens[c] = token]

\* Mutant: the token of a closed connection stays.
Mut_TokenErase(m, c) == m

\* token_erase()
TokenErase(m, c) == [m EXCEPT !.tokens[c] = NoToken]

\* Mutant: the challenge stays.
Mut_TokenReset(m, c, challenge) ==
    IF ~ Has(m, c) THEN m ELSE [m EXCEPT !.tokens[c].user = Nobody]

\* token_reset()
TokenReset(m, c, challenge) ==
    IF ~ Has(m, c) THEN m
    ELSE [m EXCEPT !.tokens[c].user = Nobody, !.tokens[c].challenge = challenge]

\* Mutant: nobody looks for the email.
Mut_UserAddNew(users, name, email) ==
    IF \/ \E u \in users : u.name = name
       \/ \E u \in users : u.id = Cardinality(users) + 1
    THEN [ok |-> FALSE, users |-> users]
    ELSE [ok |-> TRUE,
          users |-> IF \E u \in users : u.email = email THEN users
                    ELSE users \cup {[id |-> Cardinality(users) + 1, name |-> name,
                                      email |-> email]}]

\* user_add_new(): name, id and email must be new; the container would refuse
\* the user otherwise, and nobody looks at what insert() says.
UserAddNew(users, name, email) ==
    IF \/ \E u \in users : u.name = name
       \/ \E u \in users : u.id = Cardinality(users) + 1
       \/ \E u \in users : u.email = email
    THEN [ok |-> FALSE, users |-> users]
    ELSE [ok |-> TRUE,
          users |-> users \cup {[id |-> Cardinality(users) + 1, name |-> name,
                                 email |-> email]}]

-----------------------------------------------------------------------------
(* The handlers of web/main.cpp *)

OnOpen(c) ==
    /\ WebAct /\ web.up = "yes" /\ c \notin web.mem.open
    /\ LET m == TokenInsert(web.mem, c, web.serial)
       IN  WebActed([web EXCEPT !.mem = [m EXCEPT !.open = @ \cup {c}, !.known[c] = {}],
                                !.serial = @ + 1])

OnClose(c) ==
    /\ WebAct /\ web.up = "yes" /\ c \in web.mem.open
    /\ LET m == TokenErase(web.mem, c)
       IN  WebActed([web EXCEPT !.mem = [m EXCEPT !.open = @ \ {c}, !.own = @ \ {c}]])

\* on_message() begins with token_update_time(), which modifies through the end
\* iterator when the connection has no token: the process may die of it.
Crashed(w) ==
    [w EXCEPT !.up = "no", !.mem = NewProcess({}),
              !.promised = Pairs(w.file.users)]

OnMessage(c, w) ==
    /\ WebAct /\ web.up = "yes" /\ c \in web.mem.open
    /\ \/ WebActed(w)
       \/ ~ Has(web.mem, c) /\ WebActed(Crashed(web))

\* "loginType1": the client gets the challenge, or an error.
LoginType1(c) ==
    OnMessage(c, IF ~ Has(web.mem, c) THEN web
                 ELSE [web EXCEPT !.mem.known[c] = @ \cup {web.mem.tokens[c].challenge}])

\* "loginType2": the answer to a challenge the client was given.
LoginType2(c, name, right) ==
    \E challenge \in web.mem.known[c] :
        LET found == {u \in web.mem.users : u.name = name}
            accepted == /\ Has(web.mem, c)
                        /\ challenge = web.mem.tokens[c].challenge
                        /\ found # {} /\ right
        IN  OnMessage(c, IF ~ accepted THEN web
                         ELSE [web EXCEPT !.mem.tokens[c].user = (CHOOSE u \in found : TRUE).id,
                                          !.mem.own = @ \cup {c}])

Logout(c) ==
    LET m == TokenReset(web.mem, c, web.serial)
    IN  OnMessage(c, [web EXCEPT !.mem = [m EXCEPT !.own = @ \ {c}],
                                 !.left = IF Has(web.mem, c)
                                          THEN @ \cup {web.mem.tokens[c].challenge} ELSE @,
                                 !.serial = @ + 1])

Register(c, name, email) ==
    LET added == UserAddNew(web.mem.users, name, email)
    IN  OnMessage(c, IF ~ added.ok THEN web
                     ELSE [web EXCEPT !.mem.users = added.users,
                                      !.promised = @ \cup {[name |-> name, email |-> email]}])

-----------------------------------------------------------------------------
(* main() *)

\* user_load_set() is called outside of any try: a file that cannot be read ends
\* the process.
Start ==
    /\ WebAct /\ web.up = "no" /\ web.file # HalfFile
    /\ WebActed([web EXCEPT !.up = "yes",
                            !.mem = NewProcess(web.file.users)])

\* A signal: run() returns, and user_save_set() opens the file, which empties it.
HandleQuit ==
    /\ WebAct /\ web.up = "yes"
    /\ WebActed([web EXCEPT !.up = "saving", !.file = HalfFile])

UserSaveSet ==
    /\ web.up = "saving"
    /\ web' = [web EXCEPT !.up = "no", !.mem = NewProcess({}),
                          !.file = FileOf(web.mem.users)]

\* The process dies; or user_save_set() cannot open the file, which loses the same.
CrashOfServer == WebAct /\ web.up # "no" /\ WebActed(Crashed(web))

WebNext ==
    \/ \E c \in Connections :
          \/ OnOpen(c) \/ OnClose(c) \/ LoginType1(c) \/ Logout(c)
          \/ \E name \in Names, right \in BOOLEAN : LoginType2(c, name, right)
          \/ \E name \in Names, email \in Emails : Register(c, name, email)
    \/ Start \/ HandleQuit \/ UserSaveSet \/ CrashOfServer

WebSpec == WebInit /\ [][WebNext]_web

-----------------------------------------------------------------------------
(***************************************************************************)
(* Properties                                                              *)
(***************************************************************************)

\* A registration that was answered OK is in the set of users, over stops and
\* starts, unless the process crashed before it was saved; and the ids of the
\* users are 1, 2, ... (user_add_new() user.cpp:352-374, user_save_set() 330).
RegisteredIsKept ==
    web.up = "yes" =>
        /\ web.promised = Pairs(web.mem.users)
        /\ {u.id : u \in web.mem.users} = 1..Cardinality(web.mem.users)

\* A connection that is logged in was logged in by its own client, not by the
\* one that had the same address before (token_erase() in on_close(), and
\* token_insert(), which keeps a token it finds).
LoginIsOwn ==
    \A c \in Connections : web.mem.tokens[c].user # Nobody => c \in web.mem.own

\* A challenge that was given out before a logout logs nobody in after it
\* (token_reset() makes a new one, loginType2 compares with it).
ChallengeEndsWithLogout ==
    \A c \in Connections :
        web.mem.tokens[c].user # Nobody => web.mem.tokens[c].challenge \notin web.left

\* Who is logged in on a connection is the client of that connection, by an
\* answer to a challenge given out since its last logout (on_close()
\* main.cpp:33, token_reset() user.cpp:251).
LoginIsSound == LoginIsOwn /\ ChallengeEndsWithLogout

=============================================================================
