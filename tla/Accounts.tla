------------------------------- MODULE Accounts -------------------------------
(***************************************************************************)
(* The accounts of the file server (src/src/http/FileServer.cc): the       *)
(* MySQL table login(user, password), the in-memory copy users that        *)
(* sql_pool() loads from it, and the sign-up ("/3...") and sign-in         *)
(* ("/2...") branches of setResponseBody.                                  *)
(*                                                                         *)
(* Sign-up runs the INSERT on the one MysqlConn the server holds and then  *)
(* users.insert, both under mutex_; the answer is the sign-in page when    *)
(* the INSERT succeeded and the "user name is registered" page otherwise,  *)
(* so the table is taken to have a unique key on user.  The INSERT is      *)
(* built by strcat of the unescaped fields into 200 bytes, so a password   *)
(* with a quote or of some length fails it with the connection up          *)
(* (Unstorable).  Sign-in reads      *)
(* users only.  The form body "user=...&password=..." is taken apart into  *)
(* its two fields; names and passwords are model values.  A restart of    *)
(* the process builds an empty users and runs sql_pool() again on a fresh  *)
(* connection from the pool.  The connection may be lost (the server       *)
(* closes it, the network fails); Reconnects says whether it comes back   *)
(* without a restart.  Nothing under src/ calls sql_pool(); the program   *)
(* that embeds FileServer is taken to call it once before serving.         *)
(***************************************************************************)
EXTENDS Integers

CONSTANTS
  Names,        \* user names a form may carry
  Passwords,    \* passwords a form may carry
  NoPw,         \* no row / no map entry for the name
  CanLoseConn,  \* whether the MysqlConn can stop working
  Reconnects,   \* whether a lost MysqlConn works again without a restart
  Unstorable,   \* passwords whose unescaped INSERT statement the server refuses
  MaxRequests,  \* bound on sign-up and sign-in requests
  MaxRestarts   \* bound on process restarts

ASSUME /\ NoPw \notin Passwords /\ Unstorable \subseteq Passwords
       /\ CanLoseConn \in BOOLEAN /\ Reconnects \in BOOLEAN
       /\ MaxRequests \in Nat /\ MaxRestarts \in Nat

VARIABLES
  db,         \* db[n]: the password of n's row in login, or NoPw
  users,      \* users[n]: FileServer::users, or NoPw when n is not a key
  connUp,     \* whether conn->update reaches the server
  confirmed,  \* confirmed[n]: password of n's last sign-up answered with the sign-in page
  signIn,     \* the last sign-in: name, password, whether it succeeded (or NoPw)
  requests,   \* requests served so far
  restarts    \* restarts so far

vars == <<db, users, connUp, confirmed, signIn, requests, restarts>>

Entry == Passwords \cup {NoPw}

-----------------------------------------------------------------------------
(* sql_pool(): SELECT user, password FROM login, and users[row[0]] =       *)
(* row[1] for every row; with one row per user the map is the table.       *)
SqlPool(table) == table

(* The process starts: some accounts exist already; users is loaded.       *)
Init ==
  /\ db \in [Names -> Entry]
  /\ users = SqlPool(db)
  /\ connUp = TRUE
  /\ confirmed = [n \in Names |-> NoPw]
  /\ signIn = NoPw
  /\ requests = 0
  /\ restarts = 0

(* Mutant of SignUp: the page is chosen by users.insert(...).second, the  *)
(* cache's answer, instead of by the INSERT's.                             *)
SignUpConfirmsOnCache(n, p) ==
  LET ins == connUp /\ db[n] = NoPw /\ p \notin Unstorable IN
  /\ requests < MaxRequests
  /\ db' = IF ins THEN [db EXCEPT ![n] = p] ELSE db
  /\ users' = IF users[n] = NoPw THEN [users EXCEPT ![n] = p] ELSE users
  /\ confirmed' = IF users[n] = NoPw THEN [confirmed EXCEPT ![n] = p] ELSE confirmed
  /\ requests' = requests + 1
  /\ UNCHANGED <<connUp, signIn, restarts>>

(* Sign-up: the INSERT succeeds when the connection works, no row has the *)
(* name and the statement is well formed; users.insert adds the pair      *)
(* whatever the INSERT returned, and leaves an existing key alone.  ins   *)
(* selects the page.                                                       *)
SignUp(n, p) ==
  LET ins == connUp /\ db[n] = NoPw /\ p \notin Unstorable IN
  /\ requests < MaxRequests
  /\ db' = IF ins THEN [db EXCEPT ![n] = p] ELSE db
  /\ users' = IF users[n] = NoPw THEN [users EXCEPT ![n] = p] ELSE users
  /\ confirmed' = IF ins THEN [confirmed EXCEPT ![n] = p] ELSE confirmed
  /\ requests' = requests + 1
  /\ UNCHANGED <<connUp, signIn, restarts>>

(* Sign-in: users.find(name) != users.end() && users[name] == password     *)
(* selects the file list over the "wrong user name or password" page.     *)
SignIn(n, p) ==
  /\ requests < MaxRequests
  /\ signIn' = [name |-> n, pw |-> p, ok |-> users[n] = p]
  /\ requests' = requests + 1
  /\ UNCHANGED <<db, users, connUp, confirmed, restarts>>

(* The MysqlConn stops working, or, with Reconnects, works again.          *)
ConnChange ==
  /\ CanLoseConn /\ (connUp \/ Reconnects)
  /\ connUp' = ~connUp
  /\ UNCHANGED <<db, users, confirmed, signIn, requests, restarts>>

(* The process restarts: a new FileServer, sql_pool() on a fresh           *)
(* connection; the table survives.                                         *)
Restart ==
  /\ restarts < MaxRestarts
  /\ users' = SqlPool(db)
  /\ connUp' = TRUE
  /\ restarts' = restarts + 1
  /\ UNCHANGED <<db, confirmed, signIn, requests>>

Next ==
  \/ \E n \in Names, p \in Passwords : SignUp(n, p) \/ SignIn(n, p)
  \/ ConnChange \/ Restart

Spec == Init /\ [][Next]_vars

-----------------------------------------------------------------------------
TypeOK ==
  /\ db \in [Names -> Entry] /\ users \in [Names -> Entry]
  /\ connUp \in BOOLEAN /\ confirmed \in [Names -> Entry]
  /\ signIn \in {NoPw} \cup [name : Names, pw : Passwords, ok : BOOLEAN]
  /\ requests \in 0..MaxRequests /\ restarts \in 0..MaxRestarts

(* An account the site confirmed (sign-up answered with the sign-in page)  *)
(* keeps its row in login with the confirmed password, through later       *)
(* sign-ups of the name, lost connections, refused statements and          *)
(* restarts, and its name stays a key of users, so a sign-in never treats  *)
(* it as unknown: the page setResponseBody picks must follow the INSERT.   *)
ConfirmedStored ==
  \A n \in Names : confirmed[n] # NoPw => db[n] = confirmed[n] /\ users[n] # NoPw

(* An account the site confirmed signs in with its password from then on:  *)
(* users never holds another password for a confirmed name.  A failed     *)
(* sign-up of the name, before the confirmed one, leaves its password in  *)
(* users, which users.insert then keeps.                                   *)
SignUpHonoured ==
  \A n \in Names : confirmed[n] # NoPw => users[n] = confirmed[n]

(* A sign-in succeeds only with a name and password the login table       *)
(* holds: what users accepts is what survives a restart.                   *)
SignInOnlyRegistered ==
  signIn # NoPw /\ signIn.ok => db[signIn.name] = signIn.pw
=============================================================================
