---------------------------- MODULE UserService -----------------------------
(***************************************************************************)
(* util/user_service.cpp as handleRegister and handleLogin of              *)
(* http_controller.cpp call it, over MySQLPool.                            *)
(*                                                                         *)
(* A POST to /register or /login runs in the thread that parsed it, a sub  *)
(* reactor or a worker.  Each function of UserService takes a connection,  *)
(* keeps it until it returns, and meanwhile calls escapeString() for every *)
(* string it puts into its statement, which takes a second one.  The calls *)
(* of the pool and the statement are one step each.                        *)
(*                                                                         *)
(* The table user has no key (README.md:45-48): it is the set of the rows  *)
(* that were inserted.  The content of names and passwords is abstracted;  *)
(* requests with an empty one, and GETs, do not reach UserService.         *)
(***************************************************************************)
EXTENDS MySQLPool

CONSTANTS
    Name, Password, \* the values of the form fields "user" and "password"
    MayFail,        \* a statement may fail: the connection to MySQL is lost
    None            \* no request, no function, no connection

ASSUME UserServiceAssumption ==
    /\ MayFail \in BOOLEAN
    /\ None \notin Connection

VARIABLES
    rows,       \* the table user
    request,    \* request[t]: the request t handles, or None
    phase,      \* the function of UserService it is in
    pc,         \* where in it
    outer,      \* the connection of that function, conn
    escapes,    \* the calls of escapeString() it has yet to complete
    answer      \* the result of its statement

requestvars == <<rows, request, phase, pc, outer, escapes, answer>>
vars == <<poolvars, requestvars>>

Request == [kind : {"register", "login"}, name : Name, password : Password]

Init ==
    /\ PoolInit
    /\ rows = {}
    /\ request = [t \in Thread |-> None]
    /\ phase = [t \in Thread |-> None]
    /\ pc = [t \in Thread |-> "idle"]
    /\ outer = [t \in Thread |-> None]
    /\ escapes = [t \in Thread |-> 0]
    /\ answer = [t \in Thread |-> FALSE]

Goto(t, place) == pc' = [pc EXCEPT ![t] = place]

-----------------------------------------------------------------------------
\* handleRegister or handleLogin begins.
Receive(t, r) ==
    /\ pc[t] = "idle"
    /\ Goto(t, "connect")
    /\ request' = [request EXCEPT ![t] = r]
    /\ phase' = [phase EXCEPT ![t] = IF r.kind = "login" THEN "verifyUser" ELSE "userExists"]
    /\ UNCHANGED <<poolvars, rows, outer, escapes, answer>>

\* The strings that each function escapes: its name, and perhaps its password.
Strings(p) == IF p \in {"registerUser", "verifyUser"} THEN 2 ELSE 1

\* auto conn = ...getConnection()
Connect(t) ==
    /\ pc[t] = "connect"
    /\ \/ /\ \E c \in Connection : Take(t, c) /\ outer' = [outer EXCEPT ![t] = c]
          /\ escapes' = [escapes EXCEPT ![t] = Strings(phase[t])]
          /\ Goto(t, "escape")
       \/ Block(t) /\ UNCHANGED <<outer, escapes, pc>>
    /\ UNCHANGED <<rows, request, phase, answer>>

\* escapeString(): a connection of its own ...
Escape(t) ==
    /\ pc[t] = "escape"
    /\ \/ (\E c \in Connection : Take(t, c)) /\ Goto(t, "escaping")
       \/ Block(t) /\ UNCHANGED pc
    /\ UNCHANGED <<rows, request, phase, outer, escapes, answer>>

\* EscapeDone that forgets to give the connection back, and one that escapes a
\* string too many.
EscapeLeaks(t) ==
    /\ pc[t] = "escaping"
    /\ escapes' = [escapes EXCEPT ![t] = @ - 1]
    /\ Goto(t, IF escapes[t] = 1 THEN "statement" ELSE "escape")
    /\ UNCHANGED <<poolvars, rows, request, phase, outer, answer>>

EscapeOneMore(t) ==
    /\ pc[t] = "escaping"
    /\ \E c \in held[t] \ {outer[t]} : Release(t, c)
    /\ escapes' = [escapes EXCEPT ![t] = @ - 1]
    /\ Goto(t, IF escapes[t] = 0 THEN "statement" ELSE "escape")
    /\ UNCHANGED <<rows, request, phase, outer, answer>>

\* ... which it gives back when it returns.
EscapeDone(t) ==
    /\ pc[t] = "escaping"
    /\ \E c \in held[t] \ {outer[t]} : Release(t, c)
    /\ escapes' = [escapes EXCEPT ![t] = @ - 1]
    /\ Goto(t, IF escapes[t] = 1 THEN "statement" ELSE "escape")
    /\ UNCHANGED <<rows, request, phase, outer, answer>>

\* The answers a statement may get; one that fails counts as a no.
Matching(t) == {row \in rows : row.name = request[t].name}
Answers(t) ==
    (IF MayFail THEN {FALSE} ELSE {}) \cup
    CASE phase[t] = "registerUser" -> {TRUE}
      [] phase[t] = "verifyUser" /\ Matching(t) # {} ->
            {row.password = request[t].password : row \in Matching(t)}
      [] phase[t] = "verifyUser" /\ Matching(t) = {} -> {FALSE}
      [] OTHER -> {Matching(t) # {}}

\* The table afterwards: an INSERT that failed may have been carried out.
RowsAfter(t, a) ==
    LET row == [name |-> request[t].name, password |-> request[t].password] IN
    IF phase[t] # "registerUser" THEN {rows}
    ELSE IF a THEN {rows \cup {row}} ELSE {rows, rows \cup {row}}

\* exec() or query(), getResult() and fetchRow().
Statement(t) ==
    /\ pc[t] = "statement"
    /\ Goto(t, "return")
    /\ \E a \in Answers(t) :
          /\ answer' = [answer EXCEPT ![t] = a]
          /\ rows' \in RowsAfter(t, a)
    /\ UNCHANGED <<poolvars, request, phase, outer, escapes>>

\* What follows a function that returned a: handleRegister asks whether the
\* name exists, then registerUser asks again, then it inserts.
After(p, a) ==
    CASE p = "userExists" /\ ~a -> "existsAgain"
      [] p = "existsAgain" /\ ~a -> "registerUser"
      [] OTHER -> None

\* The function returns, and gives its connection back.
Return(t) ==
    LET next == After(phase[t], answer[t]) IN
    /\ pc[t] = "return"
    /\ Release(t, outer[t])
    /\ outer' = [outer EXCEPT ![t] = None]
    /\ answer' = [answer EXCEPT ![t] = FALSE]
    /\ phase' = [phase EXCEPT ![t] = next]
    /\ request' = [request EXCEPT ![t] = IF next = None THEN None ELSE @]
    /\ Goto(t, IF next = None THEN "idle" ELSE "connect")
    /\ UNCHANGED <<rows, escapes>>

-----------------------------------------------------------------------------
ThreadStep(t) ==
    \/ Connect(t)
    \/ Escape(t)
    \/ EscapeDone(t)
    \/ Statement(t)
    \/ Return(t)

Next == \E t \in Thread :
    \/ \E r \in Request : Receive(t, r)
    \/ ThreadStep(t)
    \/ Spurious(t) /\ UNCHANGED requestvars

\* A thread that is neither idle nor blocked keeps running.
Fairness == \A t \in Thread : WF_vars(ThreadStep(t))

Spec == Init /\ [][Next]_vars /\ Fairness

-----------------------------------------------------------------------------
(* Properties.                                                             *)

\* Every variable keeps its type.
TypeOK ==
    /\ PoolTypeOK
    /\ rows \subseteq [name : Name, password : Password]
    /\ request \in [Thread -> Request \cup {None}]
    /\ phase \in [Thread -> {"userExists", "existsAgain", "registerUser", "verifyUser", None}]
    /\ pc \in [Thread -> {"idle", "connect", "escape", "escaping", "statement", "return"}]
    /\ outer \in [Thread -> Connection \cup {None}]
    /\ escapes \in [Thread -> 0 .. 2]
    /\ answer \in [Thread -> BOOLEAN]

\* Whenever threads wait for a connection, one that does not will give one
\* back or has been told to come for one: they never wait for each other only.
\* mysql_conn_pool.cpp:78: getConnection() waits for an available connection.
NoCircularWait == waiting # {} => \E t \in Thread \ waiting : held[t] # {} \/ t \in woken

\* The server never stops answering: while requests are being handled, one of
\* them completes, again and again.
RequestsComplete ==
    \/ []<>(\A t \in Thread : pc[t] = "idle")
    \/ []<><<\E t \in Thread : Return(t) /\ pc'[t] = "idle">>_vars
=============================================================================
