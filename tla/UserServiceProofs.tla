------------------------- MODULE UserServiceProofs --------------------------
(***************************************************************************)
(* Proofs about MySQLPool and UserService, for any finite number of        *)
(* threads and connections.                                                *)
(***************************************************************************)
EXTENDS UserService, FiniteSetTheorems, TLAPS

-----------------------------------------------------------------------------
(* The pool.  Its invariant is kept by every call of it, whoever calls.    *)

PoolInv == PoolTypeOK /\ ConnectionsConserved /\ NoIdleConnection

LEMMA PoolFinite ==
  ASSUME PoolTypeOK
  PROVE  /\ IsFiniteSet(conn_queue) /\ IsFiniteSet(woken)
         /\ Cardinality(conn_queue) \in Nat /\ Cardinality(woken) \in Nat
<1>1. IsFiniteSet(conn_queue) /\ IsFiniteSet(woken)
  BY MySQLPoolAssumption, FS_Subset DEF PoolTypeOK
<1> QED
  BY <1>1, FS_CardinalityType

LEMMA PoolInitially == PoolInit => PoolInv
<1> SUFFICES ASSUME PoolInit PROVE PoolInv
  OBVIOUS
<1>1. PoolTypeOK
  BY DEF PoolInit, PoolTypeOK
<1>2. ConnectionsConserved
  BY DEF PoolInit, ConnectionsConserved
<1>3. NoIdleConnection
  BY DEF PoolInit, NoIdleConnection
<1> QED
  BY <1>1, <1>2, <1>3 DEF PoolInv

LEMMA TakeKeeps ==
  ASSUME PoolInv, NEW t \in Thread, NEW c \in Connection, Take(t, c)
  PROVE  PoolInv'
<1> USE DEF PoolInv
<1>1. /\ c \in conn_queue /\ t \notin waiting /\ waiting' = waiting
      /\ conn_queue' = conn_queue \ {c} /\ woken' = woken \ {t}
  BY DEF Take
<1>2. \A u \in Thread : held'[u] = IF u = t THEN held[t] \cup {c} ELSE held[u]
  BY DEF Take, PoolTypeOK
<1>3. PoolTypeOK'
  BY DEF Take, PoolTypeOK
<1>4. ConnectionsConserved'
  <2>1. \A d \in Connection : d \in conn_queue' \/ \E u \in Thread : d \in held'[u]
    BY <1>1, <1>2 DEF ConnectionsConserved
  <2>2. conn_queue' \cup UNION {held'[u] : u \in Thread} = Connection
    BY <1>3, <2>1 DEF PoolTypeOK
  <2>3. \A u \in Thread : held'[u] \cap conn_queue' = {}
    BY <1>1, <1>2 DEF ConnectionsConserved
  <2>4. \A u, v \in Thread : u # v => held'[u] \cap held'[v] = {}
    BY <1>1, <1>2 DEF ConnectionsConserved
  <2> QED
    BY <2>2, <2>3, <2>4 DEF ConnectionsConserved
<1>5. NoIdleConnection'
  <2>1. Cardinality(conn_queue') = Cardinality(conn_queue) - 1
    BY <1>1, PoolFinite, FS_RemoveElement
  <2>2. Cardinality(woken') >= Cardinality(woken) - 1
    <3>1. IsFiniteSet(woken) /\ Cardinality(woken) \in Nat
      BY PoolFinite
    <3>2. Cardinality(woken \ {t}) = IF t \in woken THEN Cardinality(woken) - 1
                                     ELSE Cardinality(woken)
      BY <3>1, FS_RemoveElement
    <3> QED
      BY <1>1, <3>1, <3>2
  <2>3. Cardinality(woken') \in Nat
    BY <1>3, PoolFinite, FS_RemoveElement, <1>1, FS_CardinalityType
  <2> QED
    BY <1>1, <2>1, <2>2, <2>3, PoolFinite DEF NoIdleConnection
<1> QED
  BY <1>3, <1>4, <1>5

LEMMA ReleaseKeeps ==
  ASSUME PoolInv, NEW t \in Thread, NEW c \in Connection, Release(t, c)
  PROVE  PoolInv'
<1> USE DEF PoolInv
<1>1. c \in held[t] /\ c \notin conn_queue /\ conn_queue' = conn_queue \cup {c}
  BY DEF Release, ConnectionsConserved
<1>2. \A u \in Thread : held'[u] = IF u = t THEN held[t] \ {c} ELSE held[u]
  BY DEF Release, PoolTypeOK
<1>3. PoolTypeOK'
  BY DEF Release, NotifyOne, PoolTypeOK
<1>4. ConnectionsConserved'
  <2>1. \A d \in Connection : d \in conn_queue' \/ \E u \in Thread : d \in held'[u]
    BY <1>1, <1>2 DEF ConnectionsConserved
  <2>2. conn_queue' \cup UNION {held'[u] : u \in Thread} = Connection
    BY <1>3, <2>1 DEF PoolTypeOK
  <2>3. \A u \in Thread : held'[u] \cap conn_queue' = {}
    BY <1>1, <1>2 DEF ConnectionsConserved
  <2>4. \A u, v \in Thread : u # v => held'[u] \cap held'[v] = {}
    BY <1>1, <1>2 DEF ConnectionsConserved
  <2> QED
    BY <2>2, <2>3, <2>4 DEF ConnectionsConserved
<1>5. NoIdleConnection'
  <2>1. Cardinality(conn_queue') = Cardinality(conn_queue) + 1
    BY <1>1, PoolFinite, FS_AddElement
  <2>2. CASE waiting = {}
    BY <2>2 DEF Release, NotifyOne, NoIdleConnection
  <2>3. CASE waiting # {}
    <3>1. PICK w \in waiting : waiting' = waiting \ {w} /\ woken' = woken \cup {w}
      BY <2>3 DEF Release, NotifyOne
    <3>2. w \notin woken
      BY DEF PoolTypeOK
    <3>3. Cardinality(woken') = Cardinality(woken) + 1
      BY <3>1, <3>2, PoolFinite, FS_AddElement
    <3> QED
      BY <2>1, <2>3, <3>3, PoolFinite DEF NoIdleConnection
  <2> QED
    BY <2>2, <2>3
<1> QED
  BY <1>3, <1>4, <1>5

LEMMA BlockKeeps ==
  ASSUME PoolInv, NEW t \in Thread, Block(t)
  PROVE  PoolInv'
<1> USE DEF PoolInv
<1>1. PoolTypeOK'
  BY DEF Block, PoolTypeOK
<1>2. ConnectionsConserved'
  BY DEF Block, ConnectionsConserved
<1>3. Cardinality(conn_queue') = 0
  BY FS_EmptySet DEF Block
<1>4. Cardinality(woken') \in Nat
  BY <1>1, MySQLPoolAssumption, FS_Subset, FS_CardinalityType DEF PoolTypeOK
<1> QED
  BY <1>1, <1>2, <1>3, <1>4 DEF NoIdleConnection

LEMMA SpuriousKeeps ==
  ASSUME PoolInv, NEW t \in Thread, Spurious(t)
  PROVE  PoolInv'
<1> USE DEF PoolInv
<1>1. PoolTypeOK'
  BY DEF Spurious, PoolTypeOK
<1>2. ConnectionsConserved'
  BY DEF Spurious, ConnectionsConserved
<1>3. t \in waiting /\ t \notin woken
  BY DEF Spurious, PoolTypeOK
<1>4. Cardinality(woken') = Cardinality(woken) + 1
  BY <1>3, PoolFinite, FS_AddElement DEF Spurious
<1> QED
  BY <1>1, <1>2, <1>3, <1>4, PoolFinite DEF Spurious, NoIdleConnection

\* Whatever threads do with the connections they take, the pool loses none,
\* gives none to two of them, and lets none lie while threads wait.
THEOREM PoolInvariant == PoolSpec => []PoolInv
<1>1. PoolInit => PoolInv
  BY PoolInitially
<1>2. PoolInv /\ [PoolNext]_poolvars => PoolInv'
  <2> SUFFICES ASSUME PoolInv, [PoolNext]_poolvars PROVE PoolInv'
    OBVIOUS
  <2>1. CASE PoolNext
    BY <2>1, TakeKeeps, ReleaseKeeps, BlockKeeps, SpuriousKeeps DEF PoolNext
  <2>2. CASE UNCHANGED poolvars
    BY <2>2 DEF poolvars, PoolInv, PoolTypeOK, ConnectionsConserved, NoIdleConnection
  <2> QED
    BY <2>1, <2>2
<1> QED
  BY <1>1, <1>2, PTL DEF PoolSpec
-----------------------------------------------------------------------------
(* UserService takes and gives back connections as the pool allows.        *)

\* Where a thread is tells how many connections it holds; it waits for one
\* only where it asks for one.
HeldAt(t) ==
    /\ pc[t] \in {"idle", "connect"} => held[t] = {}
    /\ pc[t] \in {"escape", "statement", "return"} => held[t] = {outer[t]}
    /\ pc[t] = "escaping" => \E c \in Connection : held[t] = {outer[t], c} /\ c # outer[t]
    /\ t \in waiting \cup woken => pc[t] \in {"connect", "escape"}

\* The request is there while it is handled, and so are the strings to escape.
RequestAt(t) ==
    /\ pc[t] \in {"escape", "escaping"} => escapes[t] \in 1 .. 2
    /\ pc[t] # "idle" => request[t] \in Request

HeldInv == \A t \in Thread : HeldAt(t)
RequestInv == \A t \in Thread : RequestAt(t)

UserInv == TypeOK /\ PoolInv /\ HeldInv /\ RequestInv

LEMMA StepIsPoolStep ==
  ASSUME PoolInv, [Next]_vars
  PROVE  [PoolNext]_poolvars
<1>1. ASSUME NEW t \in Thread, NEW r \in Request, Receive(t, r) PROVE UNCHANGED poolvars
  BY <1>1 DEF Receive
<1>2. ASSUME NEW t \in Thread, Connect(t) PROVE PoolNext
  BY <1>2 DEF Connect, PoolNext
<1>3. ASSUME NEW t \in Thread, Escape(t) PROVE PoolNext
  BY <1>3 DEF Escape, PoolNext
<1>4. ASSUME NEW t \in Thread, EscapeDone(t) PROVE PoolNext
  BY <1>4 DEF EscapeDone, PoolNext, PoolInv, PoolTypeOK
<1>5. ASSUME NEW t \in Thread, Statement(t) PROVE UNCHANGED poolvars
  BY <1>5 DEF Statement
<1>6. ASSUME NEW t \in Thread, Return(t) PROVE PoolNext
  <2>1. Release(t, outer[t])
    BY <1>6 DEF Return
  <2>2. outer[t] \in Connection
    BY <2>1 DEF Release, PoolInv, PoolTypeOK
  <2> QED
    BY <2>1, <2>2 DEF PoolNext
<1>7. ASSUME NEW t \in Thread, Spurious(t) PROVE PoolNext
  BY <1>7 DEF PoolNext
<1>8. CASE UNCHANGED vars
  BY <1>8 DEF vars
<1> QED
  BY <1>1, <1>2, <1>3, <1>4, <1>5, <1>6, <1>7, <1>8 DEF Next, ThreadStep

LEMMA StepKeepsPool ==
  ASSUME PoolInv, [Next]_vars
  PROVE  PoolInv'
<1>1. CASE PoolNext
  BY <1>1, TakeKeeps, ReleaseKeeps, BlockKeeps, SpuriousKeeps DEF PoolNext
<1>2. CASE UNCHANGED poolvars
  BY <1>2 DEF poolvars, PoolInv, PoolTypeOK, ConnectionsConserved, NoIdleConnection
<1> QED
  BY <1>1, <1>2, StepIsPoolStep

\* An action of t leaves the other threads alone, but for waking some up.
OnlyMoves(t) ==
    /\ \A u \in Thread \ {t} :
          /\ pc'[u] = pc[u] /\ held'[u] = held[u] /\ outer'[u] = outer[u]
          /\ escapes'[u] = escapes[u] /\ request'[u] = request[u]
    /\ (waiting' \cup woken') \ {t} \subseteq waiting \cup woken

LEMMA OthersKeepTheirs ==
  ASSUME UserInv, NEW t \in Thread, OnlyMoves(t), HeldAt(t)', RequestAt(t)'
  PROVE  HeldInv' /\ RequestInv'
<1> SUFFICES ASSUME NEW u \in Thread, u # t PROVE HeldAt(u)' /\ RequestAt(u)'
  BY DEF HeldInv, RequestInv
<1>1. HeldAt(u) /\ RequestAt(u)
  BY DEF UserInv, HeldInv, RequestInv
<1>2. /\ pc'[u] = pc[u] /\ held'[u] = held[u] /\ outer'[u] = outer[u]
      /\ escapes'[u] = escapes[u] /\ request'[u] = request[u]
      /\ u \in waiting' \cup woken' => u \in waiting \cup woken
  BY DEF OnlyMoves
<1>3. HeldAt(u)'
  BY <1>1, <1>2 DEF HeldAt
<1>4. RequestAt(u)'
  BY <1>1, <1>2 DEF RequestAt
<1> QED
  BY <1>3, <1>4

LEMMA StepKeepsUser ==
  ASSUME UserInv, [Next]_vars
  PROVE  UserInv'
<1> USE DEF UserInv
<1>1. PoolInv'
  BY StepKeepsPool
<1>2. PoolTypeOK'
  BY <1>1 DEF PoolInv
<1>3. ASSUME NEW t \in Thread, NEW r \in Request, Receive(t, r)
      PROVE  TypeOK' /\ HeldInv' /\ RequestInv'
  <2>1. TypeOK'
    BY <1>2, <1>3 DEF Receive, Goto, TypeOK, Request
  <2>2. OnlyMoves(t)
    BY <1>3 DEF Receive, Goto, TypeOK, OnlyMoves, poolvars
  <2>3. pc[t] = "idle" /\ pc'[t] = "connect" /\ held'[t] = held[t] /\ request'[t] = r
        /\ waiting' = waiting /\ woken' = woken
    BY <1>3 DEF Receive, Goto, TypeOK, poolvars
  <2>4. HeldAt(t)' /\ RequestAt(t)'
    BY <2>3 DEF HeldInv, HeldAt, RequestAt
  <2> QED
    BY <2>1, <2>2, <2>4, OthersKeepTheirs
<1>4. ASSUME NEW t \in Thread, Connect(t)
      PROVE  TypeOK' /\ HeldInv' /\ RequestInv'
  <2>1. pc[t] = "connect" /\ held[t] = {} /\ request[t] \in Request
        /\ UNCHANGED <<rows, request, phase, answer>>
    BY <1>4 DEF Connect, HeldInv, HeldAt, RequestInv, RequestAt
  <2>2. CASE \E c \in Connection : Take(t, c) /\ outer' = [outer EXCEPT ![t] = c]
    <3>1. PICK c \in Connection : Take(t, c) /\ outer' = [outer EXCEPT ![t] = c]
      BY <2>2
    <3>2. c \in conn_queue
      BY <3>1 DEF Take
    <3>3. CASE conn_queue = {}
      BY <3>2, <3>3
    <3>4. CASE conn_queue # {}
      <4>1. escapes' = [escapes EXCEPT ![t] = Strings(phase[t])] /\ Goto(t, "escape")
        BY <1>4, <3>4 DEF Connect, Block
      <4>2. Strings(phase[t]) \in 1 .. 2
        BY DEF Strings
      <4>3. TypeOK'
        BY <1>2, <2>1, <3>1, <4>1, <4>2 DEF Goto, TypeOK
      <4>4. OnlyMoves(t)
        BY <2>1, <3>1, <4>1 DEF Take, Goto, TypeOK, PoolTypeOK, OnlyMoves
      <4>5. pc'[t] = "escape" /\ held'[t] = {c} /\ outer'[t] = c
            /\ escapes'[t] \in 1 .. 2 /\ request'[t] \in Request
        BY <2>1, <3>1, <4>1, <4>2 DEF Take, Goto, TypeOK, PoolTypeOK
      <4>6. HeldAt(t)' /\ RequestAt(t)'
        BY <4>5 DEF HeldAt, RequestAt
      <4> QED
        BY <4>3, <4>4, <4>6, OthersKeepTheirs
    <3> QED
      BY <3>3, <3>4
  <2>3. CASE Block(t) /\ UNCHANGED <<outer, escapes, pc>>
    <3>1. TypeOK'
      BY <1>2, <2>1, <2>3 DEF TypeOK
    <3>2. OnlyMoves(t)
      BY <2>1, <2>3 DEF Block, OnlyMoves
    <3>3. HeldAt(t)' /\ RequestAt(t)'
      BY <2>1, <2>3 DEF Block, HeldAt, RequestAt
    <3> QED
      BY <3>1, <3>2, <3>3, OthersKeepTheirs
  <2>4. \/ \E c \in Connection : Take(t, c) /\ outer' = [outer EXCEPT ![t] = c]
        \/ Block(t) /\ UNCHANGED <<outer, escapes, pc>>
    BY <1>4 DEF Connect
  <2> QED
    BY <2>2, <2>3, <2>4
<1>5. ASSUME NEW t \in Thread, Escape(t)
      PROVE  TypeOK' /\ HeldInv' /\ RequestInv'
  <2>1. pc[t] = "escape" /\ held[t] = {outer[t]} /\ request[t] \in Request
        /\ escapes[t] \in 1 .. 2
        /\ UNCHANGED <<rows, request, phase, outer, escapes, answer>>
    BY <1>5 DEF Escape, HeldInv, HeldAt, RequestInv, RequestAt
  <2>2. ASSUME NEW c \in Connection, Take(t, c), Goto(t, "escaping")
        PROVE  TypeOK' /\ HeldInv' /\ RequestInv'
    <3>1. c \in conn_queue /\ c \notin held[t]
      BY <2>2 DEF Take, PoolInv, ConnectionsConserved
    <3>2. TypeOK'
      BY <1>2, <2>1, <2>2 DEF Goto, TypeOK
    <3>3. OnlyMoves(t)
      BY <2>1, <2>2 DEF Take, Goto, TypeOK, PoolTypeOK, OnlyMoves
    <3>4. pc'[t] = "escaping" /\ held'[t] = {outer[t], c} /\ outer' = outer
          /\ escapes'[t] = escapes[t] /\ request'[t] = request[t]
          /\ t \notin waiting' \cup woken'
      BY <2>1, <2>2 DEF Take, Goto, TypeOK, PoolTypeOK
    <3>5. HeldAt(t)' /\ RequestAt(t)'
      BY <2>1, <3>1, <3>4 DEF HeldAt, RequestAt
    <3> QED
      BY <3>2, <3>3, <3>5, OthersKeepTheirs
  <2>3. CASE Block(t) /\ UNCHANGED pc
    <3>1. TypeOK'
      BY <1>2, <2>1, <2>3 DEF TypeOK
    <3>2. OnlyMoves(t)
      BY <2>1, <2>3 DEF Block, OnlyMoves
    <3>3. HeldAt(t)' /\ RequestAt(t)'
      BY <2>1, <2>3 DEF Block, HeldAt, RequestAt
    <3> QED
      BY <3>1, <3>2, <3>3, OthersKeepTheirs
  <2>4. \/ (\E c \in Connection : Take(t, c)) /\ Goto(t, "escaping")
        \/ Block(t) /\ UNCHANGED pc
    BY <1>5 DEF Escape
  <2> QED
    BY <2>2, <2>3, <2>4
<1>6. ASSUME NEW t \in Thread, EscapeDone(t)
      PROVE  TypeOK' /\ HeldInv' /\ RequestInv'
  <2>1. pc[t] = "escaping" /\ request[t] \in Request /\ escapes[t] \in 1 .. 2
        /\ UNCHANGED <<rows, request, phase, outer, answer>>
    BY <1>6 DEF EscapeDone, RequestInv, RequestAt
  <2>2. PICK d \in Connection : held[t] = {outer[t], d} /\ d # outer[t]
    BY <2>1 DEF HeldInv, HeldAt
  <2>3. Release(t, d)
    BY <1>6, <2>2 DEF EscapeDone
  <2>4. escapes' = [escapes EXCEPT ![t] = @ - 1]
        /\ pc' = [pc EXCEPT ![t] = IF escapes[t] = 1 THEN "statement" ELSE "escape"]
    BY <1>6 DEF EscapeDone, Goto
  <2>5. escapes[t] - 1 \in 0 .. 2 /\ (escapes[t] # 1 => escapes[t] - 1 \in 1 .. 2)
    BY <2>1
  <2>6. TypeOK'
    BY <1>2, <2>1, <2>4, <2>5 DEF TypeOK
  <2>7. OnlyMoves(t)
    BY <2>1, <2>3, <2>4 DEF Release, NotifyOne, TypeOK, PoolTypeOK, OnlyMoves
  <2>8. held'[t] = {outer[t]} /\ t \notin waiting' \cup woken'
    BY <2>2, <2>3 DEF Release, NotifyOne, TypeOK, PoolTypeOK
  <2>9. HeldAt(t)' /\ RequestAt(t)'
    <3>1. pc'[t] \in {"statement", "escape"} /\ outer'[t] = outer[t] /\ request'[t] = request[t]
      BY <2>1, <2>4 DEF TypeOK
    <3>2. HeldAt(t)'
      BY <2>8, <3>1 DEF HeldAt
    <3>3. pc'[t] = "escape" => escapes'[t] \in 1 .. 2
      BY <2>4, <2>5 DEF TypeOK
    <3> QED
      BY <2>1, <3>1, <3>2, <3>3 DEF RequestAt
  <2> QED
    BY <2>6, <2>7, <2>9, OthersKeepTheirs
<1>7. ASSUME NEW t \in Thread, Statement(t)
      PROVE  TypeOK' /\ HeldInv' /\ RequestInv'
  <2>1. pc[t] = "statement" /\ request[t] \in Request
        /\ UNCHANGED <<poolvars, request, phase, outer, escapes>>
        /\ pc' = [pc EXCEPT ![t] = "return"]
    BY <1>7 DEF Statement, Goto, RequestInv, RequestAt
  <2>2. PICK a \in Answers(t) : answer' = [answer EXCEPT ![t] = a] /\ rows' \in RowsAfter(t, a)
    BY <1>7 DEF Statement
  <2>3. a \in BOOLEAN
    BY <2>2 DEF Answers
  <2>4. rows' \subseteq [name : Name, password : Password]
    BY <2>1, <2>2 DEF RowsAfter, Request, TypeOK
  <2>5. TypeOK'
    BY <1>2, <2>1, <2>2, <2>3, <2>4 DEF TypeOK
  <2>6. OnlyMoves(t)
    BY <2>1 DEF OnlyMoves, TypeOK, poolvars
  <2>7. HeldAt(t)' /\ RequestAt(t)'
    BY <2>1 DEF HeldInv, HeldAt, RequestAt, TypeOK, poolvars
  <2> QED
    BY <2>5, <2>6, <2>7, OthersKeepTheirs
<1>8. ASSUME NEW t \in Thread, Return(t)
      PROVE  TypeOK' /\ HeldInv' /\ RequestInv'
  <2> DEFINE n == After(phase[t], answer[t])
  <2>1. pc[t] = "return" /\ held[t] = {outer[t]} /\ request[t] \in Request
        /\ UNCHANGED <<rows, escapes>>
    BY <1>8 DEF Return, HeldInv, HeldAt, RequestInv, RequestAt
  <2>2. n \in {"existsAgain", "registerUser", None}
    BY DEF After
  <2>3. /\ Release(t, outer[t])
        /\ outer' = [outer EXCEPT ![t] = None]
        /\ answer' = [answer EXCEPT ![t] = FALSE]
        /\ phase' = [phase EXCEPT ![t] = n]
        /\ request' = [request EXCEPT ![t] = IF n = None THEN None ELSE @]
        /\ pc' = [pc EXCEPT ![t] = IF n = None THEN "idle" ELSE "connect"]
    BY <1>8 DEF Return, Goto
  <2> HIDE DEF n
  <2>4. TypeOK'
    BY <1>2, <2>1, <2>2, <2>3 DEF TypeOK
  <2>5. OnlyMoves(t)
    BY <2>1, <2>3 DEF Release, NotifyOne, TypeOK, PoolTypeOK, OnlyMoves
  <2>6. held'[t] = {} /\ t \notin waiting' \cup woken'
    BY <2>1, <2>3 DEF Release, NotifyOne, TypeOK, PoolTypeOK
  <2>7. HeldAt(t)' /\ RequestAt(t)'
    BY <2>1, <2>3, <2>6 DEF HeldAt, RequestAt, TypeOK
  <2> QED
    BY <2>4, <2>5, <2>7, OthersKeepTheirs
<1>9. ASSUME NEW t \in Thread, Spurious(t), UNCHANGED requestvars
      PROVE  TypeOK' /\ HeldInv' /\ RequestInv'
  <2>1. TypeOK'
    BY <1>2, <1>9 DEF requestvars, TypeOK
  <2>2. OnlyMoves(t)
    BY <1>9 DEF Spurious, requestvars, OnlyMoves
  <2>3. HeldAt(t)' /\ RequestAt(t)'
    BY <1>9 DEF Spurious, requestvars, HeldInv, HeldAt, RequestInv, RequestAt
  <2> QED
    BY <2>1, <2>2, <2>3, OthersKeepTheirs
<1>10. CASE UNCHANGED vars
  BY <1>10 DEF vars, poolvars, requestvars, TypeOK, PoolTypeOK, PoolInv, ConnectionsConserved,
     NoIdleConnection, HeldInv, HeldAt, RequestInv, RequestAt
<1>11. CASE Next
  BY <1>1, <1>3, <1>4, <1>5, <1>6, <1>7, <1>8, <1>9, <1>11 DEF Next, ThreadStep
<1> QED
  BY <1>10, <1>11

THEOREM UserInvariant == Spec => []UserInv
<1>1. Init => UserInv
  <2> SUFFICES ASSUME Init PROVE UserInv
    OBVIOUS
  <2>1. PoolInv
    BY PoolInitially DEF Init
  <2>2. TypeOK
    BY <2>1 DEF Init, TypeOK, PoolInv
  <2>3. HeldInv /\ RequestInv
    BY DEF Init, PoolInit, HeldInv, HeldAt, RequestInv, RequestAt
  <2> QED
    BY <2>1, <2>2, <2>3 DEF UserInv
<1> QED
  BY <1>1, StepKeepsUser, PTL DEF Spec

\* The variables of every handler, and of the pool, keep their types.
THEOREM TypeCorrect == Spec => []TypeOK
<1>1. UserInv => TypeOK
  BY DEF UserInv
<1> QED
  BY <1>1, UserInvariant, PTL

\* The handlers never lose a connection, nor use one at the same time.
THEOREM Conserved == Spec => []ConnectionsConserved
<1>1. UserInv => ConnectionsConserved
  BY DEF UserInv, PoolInv
<1> QED
  BY <1>1, UserInvariant, PTL

\* No handler sleeps over a connection that has been given back for it.
THEOREM NoneIdle == Spec => []NoIdleConnection
<1>1. UserInv => NoIdleConnection
  BY DEF UserInv, PoolInv
<1> QED
  BY <1>1, UserInvariant, PTL

-----------------------------------------------------------------------------
(* With more connections than threads the nested calls are harmless: when  *)
(* the queue is empty, some thread holds two connections, which is one     *)
(* that waits for none.                                                    *)

LEMMA SomeoneHoldsTwo ==
  ASSUME UserInv, conn_queue = {}, Cardinality(Thread) < Cardinality(Connection)
  PROVE  \E t \in Thread : \E c, d \in held[t] : c # d
<1> DEFINE Holder == [c \in Connection |-> CHOOSE t \in Thread : c \in held[t]]
<1>1. \A c \in Connection : Holder[c] \in Thread /\ c \in held[Holder[c]]
  BY DEF UserInv, PoolInv, ConnectionsConserved
<1>2. Holder \in [Connection -> Thread]
  BY <1>1
<1> HIDE DEF Holder
<1>3. \E c, d \in Connection : c # d /\ Holder[c] = Holder[d]
  BY <1>2, MySQLPoolAssumption, FS_PigeonHole
<1> QED
  BY <1>1, <1>3

\* worker_threads (or num_sub_reactor) below pool_size is enough for handlers
\* never to wait for each other only; reactors and workers that are as many
\* as the connections may (MCUserServiceNested.cfg).
THEOREM EnoughConnections ==
  ASSUME Cardinality(Thread) < Cardinality(Connection)
  PROVE  Spec => []NoCircularWait
<1>1. UserInv => NoCircularWait
  <2> SUFFICES ASSUME UserInv, waiting # {}
               PROVE  \E t \in Thread \ waiting : held[t] # {} \/ t \in woken
    BY DEF NoCircularWait
  <2>1. CASE conn_queue # {}
    <3>1. Cardinality(conn_queue) # 0 /\ Cardinality(conn_queue) \in Nat
      BY <2>1, PoolFinite, FS_EmptySet DEF UserInv, PoolInv
    <3>2. Cardinality(woken) # 0 /\ IsFiniteSet(woken)
      BY <3>1, PoolFinite DEF UserInv, PoolInv, NoIdleConnection
    <3>3. woken # {}
      BY <3>2, FS_EmptySet
    <3> QED
      BY <3>3 DEF UserInv, PoolInv, PoolTypeOK
  <2>2. CASE conn_queue = {}
    <3>1. PICK t \in Thread : \E c, d \in held[t] : c # d
      BY <2>2, SomeoneHoldsTwo
    <3>2. t \notin waiting
      BY <3>1 DEF UserInv, HeldInv, HeldAt
    <3> QED
      BY <3>1, <3>2
  <2> QED
    BY <2>1, <2>2
<1> QED
  BY <1>1, UserInvariant, PTL
=============================================================================
